---- MODULE Spec2Model ----
(***************************************************************************)
(* Verification model of cargo-ros2.                                       *)
(*                                                                         *)
(*   Spec        the workflow orchestrator (cargo-ros2/src/workflow.rs):   *)
(*               WorkflowContext::run as a step machine, with the cache    *)
(*               file, the IDL files, the ament index and the project      *)
(*               manifest as the environment it reads and writes.          *)
(*   SpecAment   package discovery (cargo-ros2-bindgen/src/ament.rs):      *)
(*               AmentIndex::from_path_string and find_package applied to  *)
(*               bounded search-path strings and directory trees.          *)
(*   SpecParser  the IDL parser (rosidl-parser/src/parser.rs):             *)
(*               parse_message, parse_service and parse_action applied to  *)
(*               bounded token lists, one member or separator per step.    *)
(*   SpecEmitter the dependency and size analyzer and the manifests        *)
(*               (rosidl-codegen/src/utils.rs, generator.rs and            *)
(*               cargo-ros2-bindgen/src/generator.rs) applied to bounded   *)
(*               messages.                                                 *)
(*   SpecTypes   the identifier helpers and the type mapping               *)
(*               (rosidl-codegen/src/types.rs) applied to bounded strings  *)
(*               and field types.                                          *)
(*   SpecBindings the orchestrator again, with the directory of generated   *)
(*               bindings deleted between runs as the only change of the   *)
(*               environment.                                              *)
(*   SpecAmentBuild  ament_build (cargo-ros2/src/main.rs) with its         *)
(*               embedded run(bindings_only = true).                       *)
(*   SpecSequence  the runtime Sequence                                    *)
(*               (rosidl-runtime-rs/src/sequence.rs): clone, clone_seq,    *)
(*               from_slice_converted and the Vec conversions.             *)
(*   SpecPackage generate_package (cargo-ros2-bindgen/src/generator.rs)    *)
(*               as a step machine over the interface files of a share     *)
(*               directory: one loop pass, or one package file, per step.  *)
(***************************************************************************)
EXTENDS Integers, Sequences, FiniteSets, TLC

\* ------------------------------------------------------------------------
\* Bounds
\* ------------------------------------------------------------------------
NumPkgs == 2        \* package names are 1..NumPkgs
NumContents == 2    \* distinct IDL contents a package's share dir can have
MaxEdits == 1       \* environment edits (IDL, index, manifest) per behaviour
NumPrefixes == 2    \* directories that can be named in AMENT_PREFIX_PATH
NumNames == 1       \* package directory names under <prefix>/share
MaxPathLen == 3     \* characters of the search-path string
MaxLines == 3       \* member and separator lines of an IDL file
MaxDepth == 2       \* nesting of arrays and sequences in a field type
MaxNameLen == 3     \* characters of a snake_case name
MaxCalls == 2       \* helpers applied one after the other
MaxStems == 2       \* interface files in each of msg/, srv/ and action/
MaxSeqLen == 4      \* elements of a runtime sequence

Pkgs == 1..NumPkgs
Contents == 1..NumContents
NoPkg == 0
NoEntry == <<>>
NoContent == 0

VARIABLES
    \* ---- environment of the orchestrator
    idl,                \* idl[p]: contents of the IDL files under p's share dir
    installed,          \* packages the ament index finds (have interfaces)
    manifest,           \* dependency names declared in Cargo.toml
    cacheFile,          \* persisted cache: cacheFile[p] = stored checksum or NoEntry
    edits,              \* number of environment edits so far
    \* ---- WorkflowContext::run, locals and position
    pc,
    bindings_only,
    ament_packages,
    dependencies,
    to_generate,
    gi,                 \* position of the for loop in to_generate
    output_dir,         \* result of generate_bindings for to_generate[gi]
    generated_packages,
    result,             \* "none" | "ok" | "err" | "interrupted"
    \* ---- observations of the run
    failStep,           \* the step whose error run returned
    calls,              \* this run's calls of generate_bindings, update_cache,
                        \* patch_cargo_config and invoke_cargo_build, in order
    changed,            \* environment edited since this run started
    cleanPrev,          \* previous run: full build, Ok, nothing edited since its start
    touched,            \* packages whose IDL was edited since check_cache
    read_idl,           \* the IDL contents generate_bindings read for
                        \* to_generate[gi], until update_cache has run
    aborted,            \* packages whose generation was cut short and that
                        \* were neither regenerated nor edited since
    rebuild_pending,    \* packages whose valid entry `cache rebuild` removed
                        \* and that no run has regenerated since
    bindings,           \* the package directories under target/ros2_bindings
    \* ---- package discovery
    fs,                 \* fs[prefix]: the directory tree below a prefix
    path_string,        \* the search-path string, a sequence of characters
    index,              \* result of AmentIndex::from_path_string
    found,              \* result of AmentIndex::find_package
    \* ---- IDL parser
    tokens,             \* Parser::tokens, the output of the lexer
    position,           \* Parser::pos (counted from 1)
    entry_point,        \* the entry point called: message, service or action
    sections,           \* the messages already returned by parse_message_impl
    message,            \* the message parse_message_impl is building
    parsed,             \* result of parse_message / parse_service / parse_action
    \* ---- code emitter
    emitting_package,   \* package_name of the emitter: the emitting package
    interface,          \* the parsed message
    all_dependencies,   \* fourth argument of generate_message_package
    emitted,            \* what the called function returned or wrote
    \* ---- type mapping and identifier helpers
    identifier,         \* the string handed to the first helper
    applied,            \* the helpers applied so far, each to the last result
    type_query,         \* arguments of rust_type_for_field
    rust_type,          \* result of rust_type_for_field
    \* ---- generate_package
    gen_share,           \* the share directory of the package, as read_dir lists it
    gen_package,         \* the Package handed to generate_package
    gen_pc,              \* position in generate_package
    gen_i,               \* position of the running loop (counted from 1)
    gen_log,             \* reads, parses, generations and writes so far, in order
    gen_result,          \* result of generate_package: "none" | "ok" | "err"
    \* ---- ament_build
    ab_pc,              \* position in ament_build
    all_patches,        \* all_patches[p]: where the patch of p comes from
    ab_result,          \* result of ament_build: "none" | "ok" | "err"
    \* ---- runtime Sequence
    vec_input,          \* the Vec or slice the sequence is made from
    sequence,           \* the Sequence made from it, once made
    derived             \* what clone, clone_seq, from_slice_converted or into returned

envVars == <<idl, installed, manifest, cacheFile, edits>>
runVars == <<pc, bindings_only, ament_packages, dependencies, to_generate, gi,
             output_dir, generated_packages, result>>
obsVars == <<failStep, calls, changed, cleanPrev,
             touched, aborted, rebuild_pending>>
workflowVars == <<envVars, runVars, obsVars, bindings, read_idl>>
amentVars == <<fs, path_string, index, found>>
parserVars == <<tokens, position, entry_point, sections, message, parsed>>
emitterVars == <<emitting_package, interface, all_dependencies, emitted>>
typesVars == <<identifier, applied, type_query, rust_type>>
genVars == <<gen_share, gen_package, gen_pc, gen_i, gen_log, gen_result>>
abVars == <<ab_pc, all_patches, ab_result>>
seqVars == <<vec_input, sequence, derived>>
vars == <<workflowVars, amentVars, parserVars, emitterVars, typesVars,
         genVars, abVars, seqVars>>

\* ------------------------------------------------------------------------
\* Helpers
\* ------------------------------------------------------------------------
Range(s) == {s[i] : i \in 1..Len(s)}

Min(S) == CHOOSE x \in S : \A y \in S : x <= y

RECURSIVE SortedSeq(_)
SortedSeq(S) == IF S = {} THEN <<>>
                ELSE <<Min(S)>> \o SortedSeq(S \ {Min(S)})

\* ------------------------------------------------------------------------
\* Cache (cargo-ros2/src/cache.rs)
\* ------------------------------------------------------------------------
\* Content hash of the IDL files of a share directory.
calculate_package_checksum(content) == <<"sha256", content>>

Checksums == {calculate_package_checksum(c) : c \in Contents}

\* Cache::is_valid
is_valid(cache, name, current_checksum) ==
    /\ cache[name] # NoEntry
    /\ cache[name] = current_checksum

\* Cache::insert: replaces on matching package_name
insert(cache, name, checksum) == [cache EXCEPT ![name] = checksum]

\* ------------------------------------------------------------------------
\* Workflow (cargo-ros2/src/workflow.rs)
\* ------------------------------------------------------------------------
\* discover_ament_packages: name -> share_dir of every package of the index
discover_ament_packages(ament_index) == ament_index

\* DependencyParser::discover_dependencies: manifest names that are known
discover_dependencies(known_ros_packages, cargo_toml) ==
    SortedSeq(cargo_toml \cap known_ros_packages)

\* discover_ros_dependencies: a second discovery pass, then the manifest
discover_ros_dependencies(ament_index, cargo_toml) ==
    discover_dependencies(discover_ament_packages(ament_index), cargo_toml)

RECURSIVE check_cache_loop(_, _, _, _, _)
check_cache_loop(i, deps, ament, cache, files) ==
    IF i > Len(deps) THEN <<>>
    ELSE LET dep == deps[i]
             rest == check_cache_loop(i + 1, deps, ament, cache, files)
         IN IF dep \notin ament THEN rest
            ELSE IF ~is_valid(cache, dep, calculate_package_checksum(files[dep]))
                 THEN <<dep>> \o rest
                 ELSE rest

\* Variant: takes every dependency of the index without asking the cache.
check_cache_all(deps, ament, cache, files) ==
    SelectSeq(deps, LAMBDA d : d \in ament)

check_cache(deps, ament, cache, files) ==
    check_cache_loop(1, deps, ament, cache, files)

\* Variant: the entry is built but the cache is never written back.
update_cache_nosave(cache, package_name, files) == cache

\* update_cache: load, insert the entry with a freshly computed checksum, save
update_cache(cache, package_name, files) ==
    insert(cache, package_name, calculate_package_checksum(files[package_name]))

\* Cache::remove: the entry of the package is deleted
remove(cache, package_name) == [cache EXCEPT ![package_name] = NoEntry]

\* Variant: the cache is emptied
handle_cache_rebuild_clear(cache, package) == [q \in DOMAIN cache |-> NoEntry]

\* handle_cache_command, CacheCommand::Rebuild: load, remove, save
handle_cache_rebuild(cache, package) == remove(cache, package)

\* generate_bindings: cargo-ros2-bindgen reads the IDL files of the package
\* and writes target/ros2_bindings/<package>; what a failed generator leaves
\* behind is not tracked
generate_bindings(dirs, package_name, ok) ==
    IF ok THEN dirs \cup {package_name} ELSE dirs

\* patch_cargo_config: the names handed to ConfigPatcher::add_patch
patch_cargo_config(packages) == Range(packages)

\* Variant: the exit status of the child is dropped.
invoke_cargo_build_ignore(status) == "ok"

\* invoke_cargo_build: Ok iff the child was spawned and exited with success
invoke_cargo_build(status) == IF status = "success" THEN "ok" ELSE "err"

\* ------------------------------------------------------------------------
\* Initial state: a fresh project, nothing cached
\* ------------------------------------------------------------------------
WorkflowInit ==
    /\ idl = [p \in Pkgs |-> 1]
    /\ installed \in SUBSET Pkgs
    /\ manifest \in SUBSET Pkgs
    /\ cacheFile = [p \in Pkgs |-> NoEntry]
    /\ edits = 0
    /\ pc = "idle"
    /\ bindings_only = FALSE
    /\ ament_packages = {}
    /\ dependencies = <<>>
    /\ to_generate = <<>>
    /\ gi = 1
    /\ output_dir = NoPkg
    /\ generated_packages = <<>>
    /\ result = "none"
    /\ failStep = "none"
    /\ calls = <<>>
    /\ changed = FALSE
    /\ cleanPrev = FALSE
    /\ touched = {}
    /\ aborted = {}
    /\ rebuild_pending = {}
    /\ bindings = {}
    /\ read_idl = NoContent

\* One entry of the call log
Call(fn, arg, ok) == [fn |-> fn, arg |-> arg, ok |-> ok]

\* The calls of fn in this run
CallsOf(fn) == SelectSeq(calls, LAMBDA c : c.fn = fn)

\* run returns Err from the named step
Fail(step) ==
    /\ pc' = "done"
    /\ result' = "err"
    /\ failStep' = step

\* ------------------------------------------------------------------------
\* Environment
\* ------------------------------------------------------------------------
\* An IDL file of package p is edited.  The run reads IDL files in
\* check_cache, generate_bindings and update_cache.
ModifyIdl(p, c) ==
    /\ edits < MaxEdits
    /\ UNCHANGED rebuild_pending
    /\ UNCHANGED <<bindings, read_idl>>
    /\ pc \in {"idle", "done", "generate", "update_cache"}
    /\ idl[p] # c
    /\ idl' = [idl EXCEPT ![p] = c]
    /\ edits' = edits + 1
    /\ changed' = TRUE
    /\ touched' = touched \cup {p}
    /\ aborted' = aborted \ {p}
    /\ UNCHANGED <<installed, manifest, cacheFile, runVars,
                   failStep, calls, cleanPrev>>

\* A package is installed into, or removed from, the search path.  The run
\* scans the index in step 1 and again in step 2.
ChangeIndex(p) ==
    /\ edits < MaxEdits
    /\ UNCHANGED rebuild_pending
    /\ UNCHANGED <<bindings, read_idl>>
    /\ pc \in {"idle", "done", "discover_deps"}
    /\ installed' = IF p \in installed THEN installed \ {p} ELSE installed \cup {p}
    /\ edits' = edits + 1
    /\ changed' = TRUE
    /\ UNCHANGED <<idl, manifest, cacheFile, runVars,
                   failStep, calls, cleanPrev,
                   touched, aborted>>

\* Cargo.toml is edited between runs.
EditManifest(p) ==
    /\ edits < MaxEdits
    /\ UNCHANGED rebuild_pending
    /\ UNCHANGED <<bindings, read_idl>>
    /\ pc \in {"idle", "done"}
    /\ manifest' = IF p \in manifest THEN manifest \ {p} ELSE manifest \cup {p}
    /\ edits' = edits + 1
    /\ changed' = TRUE
    /\ UNCHANGED <<idl, installed, cacheFile, runVars,
                   failStep, calls, cleanPrev,
                   touched, aborted>>

\* `cargo ros2 cache rebuild <package>` between two runs
CacheRebuild(p) ==
    /\ edits < MaxEdits
    /\ pc \in {"idle", "done"}
    /\ cacheFile' = handle_cache_rebuild(cacheFile, p)
    /\ rebuild_pending' =
          IF is_valid(cacheFile, p, calculate_package_checksum(idl[p]))
          THEN rebuild_pending \cup {p} ELSE rebuild_pending
    /\ edits' = edits + 1
    /\ changed' = TRUE
    /\ UNCHANGED <<idl, installed, manifest, runVars,
                   failStep, calls, cleanPrev, touched, aborted, bindings, read_idl>>

\* target/ros2_bindings/<p> is deleted between two runs (cargo clean, rm);
\* the cache file lives in the project root and stays
DeleteBindings(p) ==
    /\ edits < MaxEdits
    /\ pc \in {"idle", "done"}
    /\ p \in bindings
    /\ bindings' = bindings \ {p}
    /\ edits' = edits + 1
    /\ changed' = TRUE
    /\ UNCHANGED <<idl, installed, manifest, cacheFile, runVars,
                   failStep, calls, cleanPrev, touched, aborted,
                   rebuild_pending, read_idl>>

\* ------------------------------------------------------------------------
\* WorkflowContext::run
\* ------------------------------------------------------------------------
\* Entry and step 1: discover ament packages.
RunStart(bo, ok) ==
    /\ pc \in {"idle", "done"}
    /\ UNCHANGED rebuild_pending
    /\ UNCHANGED bindings
    /\ read_idl' = NoContent
    /\ bindings_only' = bo
    /\ dependencies' = <<>>
    /\ to_generate' = <<>>
    /\ gi' = 1
    /\ output_dir' = NoPkg
    /\ generated_packages' = <<>>
    /\ calls' = <<>>
    /\ cleanPrev' = (pc = "done" /\ result = "ok" /\ ~bindings_only /\ ~changed)
    /\ changed' = FALSE
    /\ touched' = {}
    /\ IF ok
       THEN /\ ament_packages' = discover_ament_packages(installed)
            /\ pc' = "discover_deps"
            /\ result' = "none"
            /\ failStep' = "none"
       ELSE /\ ament_packages' = {}
            /\ Fail("discover")
    /\ UNCHANGED <<envVars, aborted>>

\* Step 2: discover ROS dependencies; the no-dependency early exit.
DiscoverDeps(ok) ==
    /\ pc = "discover_deps"
    /\ UNCHANGED rebuild_pending
    /\ UNCHANGED <<bindings, read_idl>>
    /\ IF ~ok
       THEN /\ Fail("dependencies")
            /\ UNCHANGED dependencies
       ELSE LET deps == discover_ros_dependencies(installed, manifest)
            IN /\ dependencies' = deps
               /\ failStep' = failStep
               /\ IF deps = <<>>
                  THEN IF ~bindings_only
                       THEN pc' = "build" /\ result' = result
                       ELSE pc' = "done" /\ result' = "ok"
                  ELSE pc' = "check_cache" /\ result' = result
    /\ UNCHANGED <<envVars, bindings_only, ament_packages, to_generate, gi,
                   output_dir, generated_packages,
                   calls, changed, cleanPrev,
                   touched, aborted>>

\* Step 3: check cache.
CheckCache(ok) ==
    /\ pc = "check_cache"
    /\ UNCHANGED rebuild_pending
    /\ UNCHANGED <<bindings, read_idl>>
    /\ IF ~ok
       THEN /\ Fail("check_cache")
            /\ UNCHANGED <<to_generate, touched>>
       ELSE LET tg == check_cache(dependencies, ament_packages, cacheFile, idl)
            IN /\ to_generate' = tg
               /\ touched' = {}
               /\ pc' = IF tg = <<>> THEN "patch" ELSE "generate"
               /\ UNCHANGED <<result, failStep>>
    /\ UNCHANGED <<envVars, bindings_only, ament_packages, dependencies, gi,
                   output_dir, generated_packages,
                   calls, changed, cleanPrev, aborted>>

\* Variant: the error of generate_bindings is swallowed and the loop goes on.
GenerateBindings_swallow(ok) ==
    /\ pc = "generate"
    /\ UNCHANGED rebuild_pending
    /\ LET package_name == to_generate[gi]
       IN /\ calls' = Append(calls, Call("generate_bindings", package_name, ok))
          /\ bindings' = generate_bindings(bindings, package_name, ok)
          /\ read_idl' = IF ok THEN idl[package_name] ELSE NoContent
          /\ output_dir' = package_name
          /\ pc' = "update_cache"
          /\ aborted' = aborted \ {package_name}
          /\ UNCHANGED <<result, failStep>>
    /\ UNCHANGED <<envVars, bindings_only, ament_packages, dependencies,
                   to_generate, gi, generated_packages,
                   changed, cleanPrev, touched>>

\* Variant: the cache entry is written before the generator is run.
GenerateBindings_cachefirst(ok) ==
    /\ pc = "generate"
    /\ UNCHANGED rebuild_pending
    /\ LET package_name == to_generate[gi]
       IN /\ calls' = Append(calls, Call("generate_bindings", package_name, ok))
          /\ bindings' = generate_bindings(bindings, package_name, ok)
          /\ read_idl' = IF ok THEN idl[package_name] ELSE NoContent
          /\ cacheFile' = update_cache(cacheFile, package_name, idl)
          /\ IF ok
             THEN /\ output_dir' = package_name
                  /\ pc' = "update_cache"
                  /\ aborted' = aborted \ {package_name}
                  /\ UNCHANGED <<result, failStep>>
             ELSE /\ Fail("generate")
                  /\ aborted' = IF package_name \in touched
                                THEN aborted ELSE aborted \cup {package_name}
                  /\ UNCHANGED output_dir
    /\ UNCHANGED <<idl, installed, manifest, edits,
                   bindings_only, ament_packages, dependencies,
                   to_generate, gi, generated_packages,
                   changed, cleanPrev, touched>>

\* Step 4, loop body, first half: generate_bindings(package_name)?
GenerateBindings(ok) ==
    /\ pc = "generate"
    /\ UNCHANGED rebuild_pending
    /\ LET package_name == to_generate[gi]
       IN /\ calls' = Append(calls, Call("generate_bindings", package_name, ok))
          /\ bindings' = generate_bindings(bindings, package_name, ok)
          /\ read_idl' = IF ok THEN idl[package_name] ELSE NoContent
          /\ IF ok
             THEN /\ output_dir' = package_name
                  /\ pc' = "update_cache"
                  /\ aborted' = aborted \ {package_name}
                  /\ UNCHANGED <<result, failStep>>
             ELSE /\ Fail("generate")
                  /\ aborted' = IF package_name \in touched
                                THEN aborted ELSE aborted \cup {package_name}
                  /\ UNCHANGED output_dir
    /\ UNCHANGED <<envVars, bindings_only, ament_packages, dependencies,
                   to_generate, gi, generated_packages,
                   changed, cleanPrev, touched>>

\* Step 4, loop body, second half: update_cache(...)? and the push.
UpdateCache(ok) ==
    /\ pc = "update_cache"
    /\ LET package_name == to_generate[gi]
       IN IF package_name \in ament_packages
          THEN /\ calls' = Append(calls, Call("update_cache", package_name, ok))
               /\ IF ok
                  THEN /\ cacheFile' = update_cache(cacheFile, package_name, idl)
                       /\ rebuild_pending' = rebuild_pending \ {package_name}
                       /\ generated_packages' =
                              Append(generated_packages, package_name)
                       /\ gi' = gi + 1
                       /\ pc' = IF gi + 1 > Len(to_generate)
                                THEN "patch" ELSE "generate"
                       /\ UNCHANGED <<result, failStep>>
                  ELSE /\ Fail("update_cache")
                       /\ UNCHANGED <<cacheFile, generated_packages, gi, rebuild_pending>>
          ELSE /\ generated_packages' = Append(generated_packages, package_name)
               /\ gi' = gi + 1
               /\ pc' = IF gi + 1 > Len(to_generate) THEN "patch" ELSE "generate"
               /\ UNCHANGED <<cacheFile, calls, result, failStep, rebuild_pending>>
    /\ UNCHANGED <<idl, installed, manifest, edits,
                   bindings_only, ament_packages, dependencies, to_generate,
                   output_dir, changed, cleanPrev, touched, aborted, bindings>>
    /\ read_idl' = NoContent

\* After step 5: step 6 unless --bindings-only
AfterPatch ==
    IF ~bindings_only
    THEN pc' = "build" /\ result' = result
    ELSE pc' = "done" /\ result' = "ok"

\* Step 5: patch .cargo/config.toml, only when something was generated.
PatchConfig(ok) ==
    /\ pc = "patch"
    /\ UNCHANGED rebuild_pending
    /\ UNCHANGED <<bindings, read_idl>>
    /\ IF generated_packages # <<>>
       THEN /\ calls' = Append(calls, Call("patch_cargo_config",
                                  patch_cargo_config(generated_packages), ok))
            /\ IF ok
               THEN AfterPatch /\ UNCHANGED failStep
               ELSE Fail("patch")
       ELSE AfterPatch /\ UNCHANGED <<calls, failStep>>
    /\ UNCHANGED <<envVars, bindings_only, ament_packages, dependencies,
                   to_generate, gi, output_dir, generated_packages,
                   changed, cleanPrev, touched, aborted>>

\* Step 6 (and the no-dependency exit): invoke_cargo_build
InvokeCargoBuild(status) ==
    /\ pc = "build"
    /\ UNCHANGED rebuild_pending
    /\ UNCHANGED <<bindings, read_idl>>
    /\ calls' = Append(calls, Call("invoke_cargo_build", status,
                                   invoke_cargo_build(status) = "ok"))
    /\ pc' = "done"
    /\ result' = invoke_cargo_build(status)
    /\ failStep' = IF invoke_cargo_build(status) = "ok" THEN failStep ELSE "build"
    /\ UNCHANGED <<envVars, bindings_only, ament_packages, dependencies,
                   to_generate, gi, output_dir, generated_packages,
                   changed, cleanPrev, touched, aborted>>

\* The process is killed in the middle of a run.  Cache::save replaces the
\* file atomically, so the cache file is either the old or the new one.
Interrupt ==
    /\ pc \notin {"idle", "done"}
    /\ UNCHANGED rebuild_pending
    /\ UNCHANGED bindings
    /\ read_idl' = NoContent
    /\ pc' = "done"
    /\ result' = "interrupted"
    /\ aborted' = IF pc = "generate" /\ to_generate[gi] \notin touched
                  THEN aborted \cup {to_generate[gi]} ELSE aborted
    /\ UNCHANGED <<envVars, bindings_only, ament_packages, dependencies,
                   to_generate, gi, output_dir, generated_packages,
                   failStep, calls, changed, cleanPrev,
                   touched>>

BuildStatuses == {"success", "failed", "spawn_error"}



\* ========================================================================
\* Package discovery (cargo-ros2-bindgen/src/ament.rs)
\* ========================================================================
\* The search-path string is a sequence of characters: Separator, or one of
\* 1..NumPrefixes.  The directory whose path is the single character k is
\* prefix k; every other non-empty path names no existing directory.
Separator == 0
Prefixes == 1..NumPrefixes
Names == 1..NumNames

\* A directory entry: file stems are numbers, ordered as file names are.
File(stem, ext) == [stem |-> stem, ext |-> ext, is_file |-> TRUE]
SubDir(stem, ext) == [stem |-> stem, ext |-> ext, is_file |-> FALSE]

\* <share_dir>/msg, /srv or /action: absent, present but not listable (a
\* regular file, or a directory without read permission), or a directory
\* with its entries in directory order.
Absent == [state |-> "absent", entries |-> <<>>]
Unreadable == [state |-> "unreadable", entries |-> <<>>]
Dir(entries) == [state |-> "dir", entries |-> entries]

\* What <prefix>/share/<name> can be.
NoShareEntry == [kind |-> "absent", msg |-> Absent, srv |-> Absent, action |-> Absent]
PlainFile == [kind |-> "file", msg |-> Absent, srv |-> Absent, action |-> Absent]
PackageDir(msg, srv, action) ==
    [kind |-> "dir", msg |-> msg, srv |-> srv, action |-> action]

Layouts ==
    { NoShareEntry,
      PlainFile,
      PackageDir(Dir(<<File(9, "txt"), SubDir(1, "msg")>>), Absent, Absent),
      PackageDir(Dir(<<File(2, "msg"), File(1, "msg")>>), Absent, Absent),
      PackageDir(Absent, Dir(<<File(1, "srv")>>), Dir(<<File(1, "action")>>)),
      PackageDir(Unreadable, Dir(<<File(1, "srv")>>), Absent) }

\* A prefix: missing; without share/; with a share/ that cannot be listed;
\* or with a share/ directory and its entries.
NoPrefix == [exists |-> FALSE, share |-> "absent",
             entries |-> [n \in Names |-> NoShareEntry]]
PrefixStates ==
    { NoPrefix,
      [NoPrefix EXCEPT !.exists = TRUE],
      [exists |-> TRUE, share |-> "unreadable",
       entries |-> [n \in Names |->
                      PackageDir(Dir(<<File(1, "msg")>>), Absent, Absent)]] }
    \cup { [exists |-> TRUE, share |-> "dir", entries |-> e] : e \in [Names -> Layouts] }

RECURSIVE StringsUpTo(_)
StringsUpTo(n) ==
    IF n = 0 THEN {<<>>}
    ELSE LET shorter == StringsUpTo(n - 1)
         IN shorter \cup { Append(s, c) : s \in shorter, c \in {Separator} \cup Prefixes }

PathStrings == StringsUpTo(MaxPathLen)

\* str::split(separator)
RECURSIVE split(_, _)
split(s, separator) ==
    IF \A i \in 1..Len(s) : s[i] # separator THEN <<s>>
    ELSE LET i == Min({k \in 1..Len(s) : s[k] = separator})
         IN <<SubSeq(s, 1, i - 1)>> \o split(SubSeq(s, i + 1, Len(s)), separator)

\* The prefixes the search path names: from_path_string reads no other
\* directory, so the directories outside the path are left out of the file
\* system (they do not exist)
Named(s) == { p \in Prefixes : \E i \in 1..Len(split(s, Separator)) :
                                  split(s, Separator)[i] = <<p>> }

\* Path::exists for a search-path segment
exists(files, prefix_path) ==
    /\ Len(prefix_path) = 1
    /\ files[prefix_path[1]].exists

\* Variant: the stems stay in the order read_dir lists them.
discover_interface_files_unsorted(dir, extension) ==
    IF dir.state = "absent" THEN [ok |-> TRUE, files |-> <<>>]
    ELSE IF dir.state = "unreadable" THEN [ok |-> FALSE, files |-> <<>>]
    ELSE [ok |-> TRUE,
          files |-> LET wanted(e) == e.is_file /\ e.ext = extension
                        kept == SelectSeq(dir.entries, wanted)
                    IN [i \in 1..Len(kept) |-> kept[i].stem]]

\* discover_interface_files(dir, extension): the stems of the regular files
\* with the extension, sorted
discover_interface_files(dir, extension) ==
    IF dir.state = "absent" THEN [ok |-> TRUE, files |-> <<>>]
    ELSE IF dir.state = "unreadable" THEN [ok |-> FALSE, files |-> <<>>]
    ELSE [ok |-> TRUE,
          files |-> SortedSeq({ dir.entries[i].stem : i \in
                       { k \in 1..Len(dir.entries) :
                           /\ dir.entries[k].is_file
                           /\ dir.entries[k].ext = extension } })]

NoInterfaces == [messages |-> <<>>, services |-> <<>>, actions |-> <<>>]
NoPackage == [ok |-> FALSE, name |-> 0, share_dir |-> <<>>, interfaces |-> NoInterfaces]

\* Package::from_share_dir; share_dir is <<prefix path, name>>
from_share_dir(share_dir, entry) ==
    LET msgs == discover_interface_files(entry.msg, "msg")
        srvs == discover_interface_files(entry.srv, "srv")
        acts == discover_interface_files(entry.action, "action")
    IN IF msgs.ok /\ srvs.ok /\ acts.ok
       THEN [ok |-> TRUE, name |-> share_dir[2], share_dir |-> share_dir,
             interfaces |-> [messages |-> msgs.files,
                             services |-> srvs.files,
                             actions |-> acts.files]]
       ELSE NoPackage

\* Variant: only messages count as interfaces.
has_interfaces_msgonly(package) == package.interfaces.messages # <<>>

\* Package::has_interfaces
has_interfaces(package) ==
    \/ package.interfaces.messages # <<>>
    \/ package.interfaces.services # <<>>
    \/ package.interfaces.actions # <<>>

\* from_path_string, body of the loop over one existing share root:
\* packages.insert(package.name, package) for every package with interfaces
scan_share_root(prefix_path, entries, packages) ==
    [n \in Names |->
        LET package == from_share_dir(<<prefix_path, n>>, entries[n])
        IN IF entries[n].kind = "dir" /\ package.ok /\ has_interfaces(package)
           THEN package
           ELSE packages[n]]

RECURSIVE scan_paths(_, _, _, _)
scan_paths(i, paths, files, packages) ==
    IF i > Len(paths) THEN packages
    ELSE LET prefix_path == paths[i]
         IN IF prefix_path = <<>> THEN scan_paths(i + 1, paths, files, packages)
            ELSE IF ~exists(files, prefix_path)
                 THEN scan_paths(i + 1, paths, files, packages)
            ELSE IF files[prefix_path[1]].share = "absent"
                 THEN scan_paths(i + 1, paths, files, packages)
            ELSE IF files[prefix_path[1]].share = "unreadable"
                 THEN scan_paths(i + 1, paths, files, packages)
            ELSE scan_paths(i + 1, paths, files,
                    scan_share_root(prefix_path,
                                    files[prefix_path[1]].entries, packages))

\* AmentIndex::from_path_string; never an error
from_path_string(path, files) ==
    scan_paths(1, split(path, Separator), files, [n \in Names |-> NoPackage])

\* AmentIndex::find_package
find_package(packages, name) == packages[name]

\* AmentIndex::package_count
package_count(packages) == Cardinality({n \in Names : packages[n].ok})

NotBuilt == [built |-> FALSE, packages |-> [n \in Names |-> NoPackage]]
NotAsked == [asked |-> 0, package |-> NoPackage]

\* No discovery going on (the other specifications)
AmentIdle ==
    /\ fs = [p \in Prefixes |-> NoPrefix]
    /\ path_string = <<>>
    /\ index = NotBuilt
    /\ found = NotAsked

\* No run going on (the other specifications)
WorkflowIdle == WorkflowInit /\ installed = {} /\ manifest = {}

FromPathString ==
    /\ ~index.built
    /\ index' = [built |-> TRUE, packages |-> from_path_string(path_string, fs)]
    /\ UNCHANGED <<fs, path_string, found>>

FindPackage(name) ==
    /\ index.built
    /\ found.asked = 0
    /\ found' = [asked |-> name, package |-> find_package(index.packages, name)]
    /\ UNCHANGED <<fs, path_string, index>>

\* ========================================================================
\* IDL parser (rosidl-parser/src/parser.rs)
\* ========================================================================
\* The parser works on the token list of the lexer.  A token carries its
\* kind, its text and, for literals, the value the text denotes; in_i64
\* tells whether str::parse::<i64> accepts the text.
Token(kind, text, num) ==
    [kind |-> kind, text |-> text, num |-> num, in_i64 |-> TRUE]

PrimitiveKinds == {"Bool", "Byte", "Char", "Int8", "UInt8", "Int16", "UInt16",
                   "Int32", "UInt32", "Int64", "UInt64", "Float32", "Float64"}
IntegerKinds == {"DecimalInteger", "HexInteger", "BinaryInteger", "OctalInteger"}

\* Result of a parsing function: Ok(val) or Err(err), and the parser position
Ok(val, pos) == [ok |-> TRUE, err |-> "", val |-> val, pos |-> pos]
Err(err, pos) == [ok |-> FALSE, err |-> err, val |-> <<>>, pos |-> pos]

\* Option
None == <<>>
Some(v) == <<v>>

\* Parser::current: the kind of the current token, "" at the end of input
current_kind(toks, pos) == IF pos <= Len(toks) THEN toks[pos].kind ELSE ""

\* Parser::expect
expect(toks, pos, kind) ==
    IF pos > Len(toks) THEN Err("UnexpectedEOF", pos)
    ELSE IF toks[pos].kind = kind THEN Ok(toks[pos].text, pos + 1)
    ELSE Err("UnexpectedToken", pos + 1)

\* Parser::parse_integer: the literal as i64
parse_integer(token, pos) ==
    IF token.kind \in IntegerKinds /\ token.in_i64
    THEN Ok(token.num, pos)
    ELSE Err("InvalidInteger", pos)

\* `size as usize`: the value wraps * 2^64 + rem, a negative size wraps
as_usize(size) == [wraps |-> IF size < 0 THEN 1 ELSE 0, rem |-> size]

\* parse_field_type: `<= N` after string / wstring
parse_string_bound(toks, pos, unbounded, bounded) ==
    IF current_kind(toks, pos) = "LessEqual"
    THEN IF pos + 1 > Len(toks) THEN Err("UnexpectedEOF", pos + 1)
         ELSE LET size == parse_integer(toks[pos + 1], pos + 2)
              IN IF size.ok
                 THEN Ok([tag |-> bounded, size |-> as_usize(size.val)], pos + 2)
                 ELSE size
    ELSE Ok([tag |-> unbounded], pos)

\* parse_field_type: the base type
parse_base_type(toks, pos) ==
    IF pos > Len(toks) THEN Err("UnexpectedEOF", pos)
    ELSE LET token == toks[pos]
         IN IF token.kind \in PrimitiveKinds
            THEN Ok([tag |-> "Primitive", prim |-> token.kind], pos + 1)
            ELSE IF token.kind = "String"
            THEN parse_string_bound(toks, pos + 1, "String", "BoundedString")
            ELSE IF token.kind = "WString"
            THEN parse_string_bound(toks, pos + 1, "WString", "BoundedWString")
            ELSE IF token.kind = "Identifier"
            THEN IF current_kind(toks, pos + 1) = "Slash"
                 THEN LET type_name == expect(toks, pos + 2, "Identifier")
                      IN IF type_name.ok
                         THEN Ok([tag |-> "NamespacedType",
                                  package |-> Some(token.text),
                                  name |-> type_name.val], type_name.pos)
                         ELSE type_name
                 ELSE Ok([tag |-> "NamespacedType", package |-> None,
                          name |-> token.text], pos + 1)
            ELSE Err("UnknownType", pos + 1)

\* parse_field_type: `N ]` or `<= N ]` inside the brackets
parse_array_size(toks, pos, base_type, tag) ==
    IF pos > Len(toks) THEN Err("UnexpectedEOF", pos)
    ELSE LET size == parse_integer(toks[pos], pos + 1)
         IN IF ~size.ok THEN size
            ELSE LET close == expect(toks, pos + 1, "RBracket")
                 IN IF ~close.ok THEN close
                    ELSE Ok([tag |-> tag, element_type |-> base_type,
                             size |-> as_usize(size.val)], close.pos)

\* Parser::parse_field_type
parse_field_type(toks, pos) ==
    LET base == parse_base_type(toks, pos)
    IN IF ~base.ok THEN base
       ELSE IF current_kind(toks, base.pos) = "LBracket"
       THEN LET p == base.pos + 1
            IN IF current_kind(toks, p) = "RBracket"
               THEN Ok([tag |-> "Sequence", element_type |-> base.val], p + 1)
               ELSE IF current_kind(toks, p) = "LessEqual"
               THEN parse_array_size(toks, p + 1, base.val, "BoundedSequence")
               ELSE IF current_kind(toks, p) \in IntegerKinds
               THEN parse_array_size(toks, p, base.val, "Array")
               ELSE Err("UnexpectedToken", p)
       ELSE base

\* Parser::parse_constant_value
parse_constant_value(toks, pos) ==
    IF pos > Len(toks) THEN Err("UnexpectedEOF", pos)
    ELSE LET token == toks[pos]
         IN IF token.kind \in IntegerKinds
            THEN LET value == parse_integer(token, pos + 1)
                 IN IF value.ok
                    THEN Ok([tag |-> "Integer", value |-> value.val], pos + 1)
                    ELSE value
            ELSE IF token.kind = "Float"
            THEN Ok([tag |-> "Float", value |-> token.num], pos + 1)
            ELSE IF token.kind = "True"
            THEN Ok([tag |-> "Bool", value |-> 1], pos + 1)
            ELSE IF token.kind = "False"
            THEN Ok([tag |-> "Bool", value |-> 0], pos + 1)
            ELSE IF token.kind = "StringLiteral"
            THEN Ok([tag |-> "String", value |-> token.num], pos + 1)
            ELSE Err("UnexpectedToken", pos + 1)

\* Parser::parse_field_or_constant.  The second test for `=`, in the branch
\* taken when the current token is not `=`, can never succeed.
parse_field_or_constant(toks, pos) ==
    LET field_type == parse_field_type(toks, pos)
    IN IF ~field_type.ok THEN field_type
       ELSE LET name == expect(toks, field_type.pos, "Identifier")
            IN IF ~name.ok THEN name
               ELSE IF current_kind(toks, name.pos) = "Equals"
               THEN LET value == parse_constant_value(toks, name.pos + 1)
                    IN IF ~value.ok THEN value
                       ELSE Ok([field |-> None,
                                constant |-> Some([constant_type |-> field_type.val,
                                                   name |-> name.val,
                                                   value |-> value.val])],
                               value.pos)
               ELSE IF current_kind(toks, name.pos) = "Equals"
               THEN LET value == parse_constant_value(toks, name.pos + 1)
                    IN IF ~value.ok THEN value
                       ELSE Ok([field |-> Some([field_type |-> field_type.val,
                                                name |-> name.val,
                                                default_value |-> Some(value.val)]),
                                constant |-> None], value.pos)
               ELSE Ok([field |-> Some([field_type |-> field_type.val,
                                        name |-> name.val,
                                        default_value |-> None]),
                        constant |-> None], name.pos)

\* Message::new
EmptyMessage == [fields |-> <<>>, constants |-> <<>>]

\* ---- inputs: up to MaxLines lines of an IDL file, as the lexer returns them
TInt32 == Token("Int32", "int32", 0)
TString == Token("String", "string", 0)
TEquals == Token("Equals", "=", 0)
TLBracket == Token("LBracket", "[", 0)
TRBracket == Token("RBracket", "]", 0)
TLessEqual == Token("LessEqual", "<=", 0)
TSlash == Token("Slash", "/", 0)
TTripleDash == Token("TripleDash", "---", 0)
TIdent(text) == Token("Identifier", text, 0)
TDecimal(text, num) == Token("DecimalInteger", text, num)
TTooLarge == [TDecimal("99999999999999999999", 0) EXCEPT !.in_i64 = FALSE]

Lines ==
    { <<TInt32, TIdent("x")>>,
      <<TInt32, TIdent("x"), TEquals, TDecimal("5", 5)>>,
      <<TInt32, TIdent("MAX_SIZE"), TEquals, TDecimal("100", 100)>>,
      <<TInt32, TIdent("MAX_SIZE")>>,
      <<TString, TLessEqual, TDecimal("5", 5), TIdent("y"), TEquals,
        Token("StringLiteral", "'a'", 1)>>,
      <<TIdent("geometry_msgs"), TSlash, TIdent("Point"), TIdent("position")>>,
      <<TInt32, TLBracket, TDecimal("5", 5), TRBracket, TIdent("data")>>,
      <<TInt32, TLBracket, TDecimal("0", 0), TRBracket, TIdent("data")>>,
      <<TInt32, TIdent("x"), TEquals>>,
      <<TInt32, TIdent("MAX_SIZE"), TEquals, TTooLarge>>,
      <<TTripleDash>> }

RECURSIVE Inputs(_)
Inputs(n) ==
    IF n = 0 THEN {<<>>}
    ELSE LET shorter == Inputs(n - 1)
         IN shorter \cup { s \o l : s \in shorter, l \in Lines }

NotParsed == [entry |-> "none", ok |-> FALSE, err |-> "", val |-> <<>>, pos |-> 0]
Parsed(r) ==
    [entry |-> entry_point, ok |-> r.ok, err |-> r.err, val |-> r.val, pos |-> r.pos]

\* Number of messages an entry point reads: parse_message 1, parse_service
\* 2 (request, response), parse_action 3 (goal, result, feedback)
SectionCount ==
    [e \in {"message", "service", "action"} |->
        IF e = "message" THEN 1 ELSE IF e = "service" THEN 2 ELSE 3]

\* The value an entry point returns from the messages it has read
ResultOf(e, msgs) ==
    IF e = "message" THEN msgs[1]
    ELSE IF e = "service" THEN [request |-> msgs[1], response |-> msgs[2]]
    ELSE [spec |-> [goal |-> msgs[1], result |-> msgs[2], feedback |-> msgs[3]]]

\* No parse going on (the other specifications)
ParserIdle ==
    /\ tokens = <<>>
    /\ position = 0
    /\ entry_point = "none"
    /\ sections = <<>>
    /\ message = EmptyMessage
    /\ parsed = NotParsed

\* An entry point is called with an input the lexer accepts: lexer::lex,
\* Parser::new and the first parse_message_impl call
Enter(e) ==
    /\ entry_point = "none"
    /\ entry_point' = e
    /\ position' = 1
    /\ message' = EmptyMessage
    /\ UNCHANGED <<tokens, sections, parsed>>

ParseMessage == Enter("message")

ParseService == Enter("service")

ParseAction == Enter("action")

Running == entry_point # "none" /\ parsed = NotParsed

\* parse_message_impl: the loop is over at the end of input or at a `---`
AtEndOfMessage ==
    IF position > Len(tokens) THEN TRUE
    ELSE tokens[position].kind = "TripleDash"

\* parse_message_impl: one turn of the loop
ParseFieldOrConstant ==
    /\ Running
    /\ ~AtEndOfMessage
    /\ LET member == parse_field_or_constant(tokens, position)
       IN IF member.ok
          THEN /\ message' = [fields |-> message.fields \o member.val.field,
                              constants |-> message.constants \o member.val.constant]
               /\ position' = member.pos
               /\ UNCHANGED parsed
          ELSE /\ parsed' = Parsed(member)
               /\ position' = member.pos
               /\ UNCHANGED message
    /\ UNCHANGED <<tokens, entry_point, sections>>

\* Variant: the next message goes on from the members of the previous one
ExpectTripleDash_keep ==
    /\ Running
    /\ AtEndOfMessage
    /\ Len(sections) + 1 < SectionCount[entry_point]
    /\ LET separator == expect(tokens, position, "TripleDash")
       IN IF separator.ok
          THEN /\ sections' = Append(sections, message)
               /\ message' = message
               /\ position' = separator.pos
               /\ UNCHANGED parsed
          ELSE /\ parsed' = Parsed(separator)
               /\ position' = separator.pos
               /\ UNCHANGED <<sections, message>>
    /\ UNCHANGED <<tokens, entry_point>>

\* parse_service / parse_action: parse_message_impl returned and another
\* message follows: expect(TripleDash), then the next parse_message_impl
ExpectTripleDash ==
    /\ Running
    /\ AtEndOfMessage
    /\ Len(sections) + 1 < SectionCount[entry_point]
    /\ LET separator == expect(tokens, position, "TripleDash")
       IN IF separator.ok
          THEN /\ sections' = Append(sections, message)
               /\ message' = EmptyMessage
               /\ position' = separator.pos
               /\ UNCHANGED parsed
          ELSE /\ parsed' = Parsed(separator)
               /\ position' = separator.pos
               /\ UNCHANGED <<sections, message>>
    /\ UNCHANGED <<tokens, entry_point>>

\* parse_message / parse_service / parse_action: the last parse_message_impl
\* returned, the entry point returns Ok
Return ==
    /\ Running
    /\ AtEndOfMessage
    /\ Len(sections) + 1 = SectionCount[entry_point]
    /\ parsed' = Parsed(Ok(ResultOf(entry_point, Append(sections, message)), position))
    /\ UNCHANGED <<tokens, position, entry_point, sections, message>>

\* ========================================================================
\* Dependency and size analyzer, manifest emission
\* (rosidl-codegen/src/utils.rs, rosidl-codegen/src/generator.rs,
\*  cargo-ros2-bindgen/src/generator.rs)
\* ========================================================================
\* Names are strings of characters, written as sequences of characters.
Chars == {"-", "_", "a", "b"}

\* The code point of a character (the order of str::cmp)
CodePoint == [c \in Chars |->
                IF c = "-" THEN 45 ELSE IF c = "_" THEN 95 ELSE IF c = "a" THEN 97 ELSE 98]

\* String order: a < b
RECURSIVE StrLess(_, _)
StrLess(a, b) ==
    IF b = <<>> THEN FALSE
    ELSE IF a = <<>> THEN TRUE
    ELSE IF Head(a) # Head(b) THEN CodePoint[Head(a)] < CodePoint[Head(b)]
    ELSE StrLess(Tail(a), Tail(b))

\* Vec::sort and Vec::dedup of the elements of a set of strings
RECURSIVE SortedStrings(_)
SortedStrings(S) ==
    IF S = {} THEN <<>>
    ELSE LET least == CHOOSE x \in S : \A y \in S \ {x} : StrLess(x, y)
         IN <<least>> \o SortedStrings(S \ {least})

\* str::replace('-', "_")
replace_dash(s) == [i \in 1..Len(s) |-> IF s[i] = "-" THEN "_" ELSE s[i]]

\* Every order in which a HashSet can be iterated
Orders(S) ==
    { o \in [1..Cardinality(S) -> S] : \A i, j \in 1..Cardinality(S) : o[i] = o[j] => i = j }

\* Arrays longer than this need serde's big-array support
BigArrayLimit == 32

\* The packages of the IDL universe; the emitting package is one of them
PkgA == <<"a">>
PkgB == <<"b">>
PkgDash == <<"a", "-", "b">>
PackageNames == {PkgA, PkgB, PkgDash}

\* FieldType values (rosidl_parser::FieldType as the parser builds them)
Int32Type == [tag |-> "Primitive", prim |-> "Int32"]
Namespaced(package, name) == [tag |-> "NamespacedType", package |-> package, name |-> name]
ArrayOf(t, n) == [tag |-> "Array", element_type |-> t, size |-> as_usize(n)]
SequenceOf(t) == [tag |-> "Sequence", element_type |-> t]
BoundedSequenceOf(t, n) ==
    [tag |-> "BoundedSequence", element_type |-> t, size |-> as_usize(n)]

BaseTypes ==
    {Int32Type, Namespaced(None, "Point")}
        \cup { Namespaced(Some(p), "Point") : p \in {PkgA, PkgB} }

\* The array sizes on both sides of the serde limit
ArraySizes == {32, 33}

RECURSIVE TypesOfDepth(_)
TypesOfDepth(d) ==
    IF d = 0 THEN BaseTypes
    ELSE LET inner == TypesOfDepth(d - 1)
         IN inner \cup { ArrayOf(t, n) : t \in inner, n \in ArraySizes }
                  \cup { SequenceOf(t) : t \in inner }
                  \cup { BoundedSequenceOf(t, 4) : t \in inner }

FieldTypes == TypesOfDepth(MaxDepth)

FieldOf(t) == [field_type |-> t, name |-> "x", default_value |-> None]
ConstantOf(t) ==
    [constant_type |-> t, name |-> "MAX_SIZE", value |-> [tag |-> "Integer", value |-> 5]]

\* The field lists: no field, one field of any type, or an int32 field
\* followed by a field of any type
FieldLists ==
    {<<>>} \cup { <<FieldOf(t)>> : t \in FieldTypes }
           \cup { <<FieldOf(Int32Type), FieldOf(t)>> : t \in FieldTypes }

\* Messages the parser can return
Messages ==
    { [fields |-> f, constants |-> c] :
        f \in FieldLists,
        c \in {<<>>} \cup { <<ConstantOf(t)>> :
                                t \in {Int32Type, Namespaced(Some(PkgB), "Point")} } }

\* usize comparison: size > n
usize_gt(size, n) == size.wraps = 1 \/ size.rem > n

\* extract_deps_from_type: the packages inserted into deps
RECURSIVE extract_deps_from_type(_)
extract_deps_from_type(field_type) ==
    IF field_type.tag = "NamespacedType"
    THEN IF field_type.package # None THEN {field_type.package[1]} ELSE {}
    ELSE IF field_type.tag \in {"Array", "Sequence", "BoundedSequence"}
    THEN extract_deps_from_type(field_type.element_type)
    ELSE {}

\* extract_dependencies
extract_dependencies(msg) ==
    UNION { extract_deps_from_type(msg.fields[i].field_type) : i \in 1..Len(msg.fields) }
        \cup UNION { extract_deps_from_type(msg.constants[i].constant_type) :
                        i \in 1..Len(msg.constants) }

\* Variant: an array stops the search
RECURSIVE has_large_array_shallow(_)
has_large_array_shallow(field_type) ==
    IF field_type.tag = "Array" THEN usize_gt(field_type.size, BigArrayLimit)
    ELSE IF field_type.tag \in {"Sequence", "BoundedSequence"}
    THEN has_large_array_shallow(field_type.element_type)
    ELSE FALSE

\* has_large_array
RECURSIVE has_large_array(_)
has_large_array(field_type) ==
    IF field_type.tag = "Array" /\ usize_gt(field_type.size, BigArrayLimit) THEN TRUE
    ELSE IF field_type.tag \in {"Array", "Sequence", "BoundedSequence"}
    THEN has_large_array(field_type.element_type)
    ELSE FALSE

\* needs_big_array
needs_big_array(msg) ==
    \E i \in 1..Len(msg.fields) : has_large_array(msg.fields[i].field_type)

\* CargoTomlTemplate::render: the manifest of generate_message_package, with
\* the crate name, one key per cross-package dependency and the big-array
\* helper
CargoTomlTemplate(name, deps, big_array) ==
    [name |-> replace_dash(name),
     dependencies |-> [i \in 1..Len(deps) |-> replace_dash(deps[i])],
     big_array |-> big_array]

\* generate_message_package: the manifest (cargo_toml)
generate_message_package(name, msg, all_deps) ==
    CargoTomlTemplate(name,
                      SortedStrings(all_deps \cup extract_dependencies(msg)),
                      needs_big_array(msg))

\* generate_cargo_toml: `dependencies` in the order the HashSet is iterated
generate_cargo_toml(name, deps) ==
    [name |-> name,
     dependencies |-> [i \in 1..Len(deps) |-> replace_dash(deps[i])],
     big_array |-> FALSE]

NoManifest == [name |-> <<>>, dependencies |-> <<>>, big_array |-> FALSE]
NotEmitted ==
    [op |-> "none", deps |-> {}, needs_big_array |-> FALSE, manifest |-> NoManifest,
     output_dir |-> <<>>]

\* Nothing is being emitted (the other specifications)
EmitterIdle ==
    /\ emitting_package = <<>>
    /\ interface = EmptyMessage
    /\ all_dependencies = {}
    /\ emitted = NotEmitted

\* utils::extract_dependencies(&message)
ExtractDependencies ==
    /\ emitted.op = "none"
    /\ emitted' = [NotEmitted EXCEPT !.op = "extract_dependencies",
                                     !.deps = extract_dependencies(interface)]
    /\ UNCHANGED <<emitting_package, interface, all_dependencies>>

\* utils::needs_big_array(&message)
NeedsBigArray ==
    /\ emitted.op = "none"
    /\ emitted' = [NotEmitted EXCEPT !.op = "needs_big_array",
                                     !.needs_big_array = needs_big_array(interface)]
    /\ UNCHANGED <<emitting_package, interface, all_dependencies>>

\* rosidl_codegen::generate_message_package
GenerateMessagePackage ==
    /\ emitted.op = "none"
    /\ emitted' = [NotEmitted EXCEPT
                     !.op = "generate_message_package",
                     !.deps = all_dependencies \cup extract_dependencies(interface),
                     !.needs_big_array = needs_big_array(interface),
                     !.manifest = generate_message_package(emitting_package, interface,
                                                           all_dependencies)]
    /\ UNCHANGED <<emitting_package, interface, all_dependencies>>

\* cargo_ros2_bindgen::generate_package for a package with one message:
\* the dependencies of its interfaces without the package itself, written
\* by generate_cargo_toml in the iteration order of the HashSet
GeneratePackage ==
    /\ emitted.op = "none"
    /\ \E order \in Orders(extract_dependencies(interface) \ {emitting_package}) :
          emitted' = [NotEmitted EXCEPT
                        !.op = "generate_package",
                        !.deps = extract_dependencies(interface) \ {emitting_package},
                        !.manifest = generate_cargo_toml(emitting_package, order),
                        !.output_dir = emitting_package]
    /\ UNCHANGED <<emitting_package, interface, all_dependencies>>

\* ========================================================================
\* Type mapping and identifier helpers (rosidl-codegen/src/types.rs)
\* ========================================================================
\* Strings are sequences of characters.
LowerLetters ==
    <<"a", "b", "c", "d", "e", "f", "g", "h", "i", "j", "k", "l", "m", "n", "o", "p", "q", "r", "s", "t", "u", "v", "w", "x", "y", "z">>
UpperLetters ==
    <<"A", "B", "C", "D", "E", "F", "G", "H", "I", "J", "K", "L", "M", "N", "O", "P", "Q", "R", "S", "T", "U", "V", "W", "X", "Y", "Z">>
Digits == {"0", "1", "2", "3", "4", "5", "6", "7", "8", "9"}

\* char::is_uppercase, char::to_lowercase and char::to_uppercase on ASCII
is_uppercase(ch) == \E i \in 1..Len(UpperLetters) : UpperLetters[i] = ch
is_lowercase(ch) == \E i \in 1..Len(LowerLetters) : LowerLetters[i] = ch
to_lowercase(ch) ==
    IF is_uppercase(ch)
    THEN LowerLetters[CHOOSE i \in 1..Len(UpperLetters) : UpperLetters[i] = ch]
    ELSE ch
to_uppercase(ch) ==
    IF is_lowercase(ch)
    THEN UpperLetters[CHOOSE i \in 1..Len(LowerLetters) : LowerLetters[i] = ch]
    ELSE ch

\* Rust keywords that need to be escaped
RUST_KEYWORDS ==
    { <<"a", "s">>,
      <<"b", "r", "e", "a", "k">>,
      <<"c", "o", "n", "s", "t">>,
      <<"c", "o", "n", "t", "i", "n", "u", "e">>,
      <<"c", "r", "a", "t", "e">>,
      <<"e", "l", "s", "e">>,
      <<"e", "n", "u", "m">>,
      <<"e", "x", "t", "e", "r", "n">>,
      <<"f", "a", "l", "s", "e">>,
      <<"f", "n">>,
      <<"f", "o", "r">>,
      <<"i", "f">>,
      <<"i", "m", "p", "l">>,
      <<"i", "n">>,
      <<"l", "e", "t">>,
      <<"l", "o", "o", "p">>,
      <<"m", "a", "t", "c", "h">>,
      <<"m", "o", "d">>,
      <<"m", "o", "v", "e">>,
      <<"m", "u", "t">>,
      <<"p", "u", "b">>,
      <<"r", "e", "f">>,
      <<"r", "e", "t", "u", "r", "n">>,
      <<"s", "e", "l", "f">>,
      <<"S", "e", "l", "f">>,
      <<"s", "t", "a", "t", "i", "c">>,
      <<"s", "t", "r", "u", "c", "t">>,
      <<"s", "u", "p", "e", "r">>,
      <<"t", "r", "a", "i", "t">>,
      <<"t", "r", "u", "e">>,
      <<"t", "y", "p", "e">>,
      <<"u", "n", "s", "a", "f", "e">>,
      <<"u", "s", "e">>,
      <<"w", "h", "e", "r", "e">>,
      <<"w", "h", "i", "l", "e">>,
      <<"a", "s", "y", "n", "c">>,
      <<"a", "w", "a", "i", "t">>,
      <<"d", "y", "n">>,
      <<"a", "b", "s", "t", "r", "a", "c", "t">>,
      <<"b", "e", "c", "o", "m", "e">>,
      <<"b", "o", "x">>,
      <<"d", "o">>,
      <<"f", "i", "n", "a", "l">>,
      <<"m", "a", "c", "r", "o">>,
      <<"o", "v", "e", "r", "r", "i", "d", "e">>,
      <<"p", "r", "i", "v">>,
      <<"t", "y", "p", "e", "o", "f">>,
      <<"u", "n", "s", "i", "z", "e", "d">>,
      <<"v", "i", "r", "t", "u", "a", "l">>,
      <<"y", "i", "e", "l", "d">>,
      <<"t", "r", "y">> }

\* Variant: the underscore is appended to every name
escape_keyword_always(name) == Append(name, "_")

\* escape_keyword
escape_keyword(name) ==
    IF name \in RUST_KEYWORDS THEN Append(name, "_") ELSE name

\* The closure of to_upper_camel_case: the first character of the word in
\* upper case, chained with the rest
capitalize(word) ==
    IF word = <<>> THEN <<>> ELSE <<to_uppercase(Head(word))>> \o Tail(word)

\* Iterator<String>::collect::<String>
RECURSIVE concat(_)
concat(words) == IF words = <<>> THEN <<>> ELSE Head(words) \o concat(Tail(words))

\* to_upper_camel_case
to_upper_camel_case(s) ==
    LET words == split(s, "_")
    IN concat([i \in 1..Len(words) |-> capitalize(words[i])])

\* The loop of to_snake_case from the i-th character on
RECURSIVE to_snake_case_from(_, _, _)
to_snake_case_from(s, i, prev_is_uppercase) ==
    IF i > Len(s) THEN <<>>
    ELSE IF is_uppercase(s[i])
    THEN (IF i > 1 /\ ~prev_is_uppercase THEN <<"_">> ELSE <<>>)
            \o <<to_lowercase(s[i])>> \o to_snake_case_from(s, i + 1, TRUE)
    ELSE <<s[i]>> \o to_snake_case_from(s, i + 1, FALSE)

\* to_snake_case
to_snake_case(s) == to_snake_case_from(s, 1, FALSE)

\* String literals of rust_type_for_field
StrI32 == <<"i", "3", "2">>
StrCrate == <<"c", "r", "a", "t", "e">>
StrFfiMsg == <<":", ":", "f", "f", "i", ":", ":", "m", "s", "g", ":", ":">>
StrMsg == <<":", ":", "m", "s", "g", ":", ":">>
StrColons == <<":", ":">>
StrRmwSequence == <<"r", "o", "s", "i", "d", "l", "_", "r", "u", "n", "t", "i", "m", "e", "_", "r", "s", ":", ":", "S", "e", "q", "u", "e", "n", "c", "e", "<">>
StrVec == <<"s", "t", "d", ":", ":", "v", "e", "c", ":", ":", "V", "e", "c", "<">>
StrClose == <<">">>

\* Variant: no self-reference detection (the package name is always used)
RECURSIVE rust_type_for_field_nocurrent(_, _, _)
rust_type_for_field_nocurrent(field_type, rmw_layer, current_package) ==
    IF field_type.tag = "Primitive" THEN StrI32
    ELSE IF field_type.tag = "Sequence"
    THEN LET elem == rust_type_for_field_nocurrent(field_type.element_type, rmw_layer,
                                                   current_package)
         IN IF rmw_layer THEN StrRmwSequence \o elem \o StrClose
            ELSE StrVec \o elem \o StrClose
    ELSE IF field_type.package # None
    THEN IF rmw_layer
         THEN field_type.package[1] \o StrFfiMsg \o to_snake_case(field_type.name)
                \o StrColons \o field_type.name
         ELSE field_type.package[1] \o StrMsg \o to_snake_case(field_type.name)
                \o StrColons \o field_type.name
    ELSE IF rmw_layer
         THEN StrCrate \o StrFfiMsg \o to_snake_case(field_type.name)
                \o StrColons \o field_type.name
         ELSE StrCrate \o StrMsg \o to_snake_case(field_type.name)
                \o StrColons \o field_type.name

\* rust_type_for_field (Primitive, Sequence and NamespacedType)
RECURSIVE rust_type_for_field(_, _, _)
rust_type_for_field(field_type, rmw_layer, current_package) ==
    IF field_type.tag = "Primitive" THEN StrI32
    ELSE IF field_type.tag = "Sequence"
    THEN LET elem == rust_type_for_field(field_type.element_type, rmw_layer,
                                         current_package)
         IN IF rmw_layer THEN StrRmwSequence \o elem \o StrClose
            ELSE StrVec \o elem \o StrClose
    ELSE LET is_self_ref == field_type.package = current_package
         IN IF field_type.package # None
            THEN IF is_self_ref
                 THEN IF rmw_layer
                      THEN StrCrate \o StrFfiMsg \o to_snake_case(field_type.name)
                             \o StrColons \o field_type.name
                      ELSE StrCrate \o StrMsg \o to_snake_case(field_type.name)
                             \o StrColons \o field_type.name
                 ELSE IF rmw_layer
                      THEN field_type.package[1] \o StrFfiMsg
                             \o to_snake_case(field_type.name)
                             \o StrColons \o field_type.name
                      ELSE field_type.package[1] \o StrMsg
                             \o to_snake_case(field_type.name)
                             \o StrColons \o field_type.name
            ELSE IF rmw_layer
                 THEN StrCrate \o StrFfiMsg \o to_snake_case(field_type.name)
                        \o StrColons \o field_type.name
                 ELSE StrCrate \o StrMsg \o to_snake_case(field_type.name)
                        \o StrColons \o field_type.name

\* The characters of the snake_case names: [a-z][a-z0-9_]* over a, b, 1, _
SnakeFirst == {"a", "b"}
SnakeRest == {"a", "b", "1", "_"}

RECURSIVE SnakeTails(_)
SnakeTails(n) ==
    IF n = 0 THEN {<<>>}
    ELSE LET shorter == SnakeTails(n - 1)
         IN shorter \cup { Append(t, c) : t \in shorter, c \in SnakeRest }

SnakeNames == { <<c>> \o t : c \in SnakeFirst, t \in SnakeTails(MaxNameLen - 1) }

\* The identifiers handed to the helpers: the keywords, the escaped
\* keywords, and the snake_case names
Identifiers ==
    RUST_KEYWORDS \cup { Append(k, "_") : k \in RUST_KEYWORDS } \cup SnakeNames

\* The interface names of the NamespacedTypes
PointName == <<"P", "o", "i", "n", "t">>
PoseStampedName == <<"P", "o", "s", "e", "S", "t", "a", "m", "p", "e", "d">>
TypeNames == {PointName, PoseStampedName}

NamespacedTypes ==
    { Namespaced(p, n) : p \in {None, Some(PkgA), Some(PkgB)}, n \in TypeNames }

\* The calls of rust_type_for_field
TypeQueries ==
    { [field_type |-> t, rmw_layer |-> l, current_package |-> c] :
        t \in {Int32Type} \cup NamespacedTypes \cup { SequenceOf(u) : u \in NamespacedTypes },
        l \in BOOLEAN,
        c \in {None, Some(PkgA), Some(PkgB)} }

NoQuery == [field_type |-> Int32Type, rmw_layer |-> FALSE, current_package |-> None]

\* No helper is being called (the other specifications)
TypesIdle ==
    /\ identifier = <<>>
    /\ applied = <<>>
    /\ type_query = NoQuery
    /\ rust_type = None

\* The value the next helper is applied to
Current == IF applied = <<>> THEN identifier ELSE applied[Len(applied)].out

Applied(fn, out) == [fn |-> fn, out |-> out]

\* escape_keyword(name)
EscapeKeyword ==
    /\ identifier # <<>>
    /\ Len(applied) < MaxCalls
    /\ applied' = Append(applied, Applied("escape_keyword", escape_keyword(Current)))
    /\ UNCHANGED <<identifier, type_query, rust_type>>

\* to_upper_camel_case(s)
ToUpperCamelCase ==
    /\ identifier # <<>>
    /\ Len(applied) < MaxCalls
    /\ applied' = Append(applied,
                         Applied("to_upper_camel_case", to_upper_camel_case(Current)))
    /\ UNCHANGED <<identifier, type_query, rust_type>>

\* to_snake_case(s)
ToSnakeCase ==
    /\ identifier # <<>>
    /\ Len(applied) < MaxCalls
    /\ applied' = Append(applied, Applied("to_snake_case", to_snake_case(Current)))
    /\ UNCHANGED <<identifier, type_query, rust_type>>

\* str::to_lowercase
str_to_lowercase(s) == [i \in 1..Len(s) |-> to_lowercase(s[i])]

StrRmwRs == <<"_", "r", "m", "w", ".", "r", "s">>

\* generate_lib_rs: the module declared for a message of the package, the
\* same in the ffi tree and in the idiomatic tree
module_name(msg_name) == str_to_lowercase(msg_name)

\* write_generated_package: the file written in src/ffi/msg/
rmw_file(name) == str_to_lowercase(name) \o StrRmwRs

\* generate_lib_rs for a package with the message `identifier`
GenerateLibRs ==
    /\ identifier \in TypeNames
    /\ applied = <<>>
    /\ applied' = <<Applied("generate_lib_rs", module_name(identifier))>>
    /\ UNCHANGED <<identifier, type_query, rust_type>>

\* write_generated_package for the message `identifier`
WriteGeneratedPackage ==
    /\ identifier \in TypeNames
    /\ applied = <<>>
    /\ applied' = <<Applied("write_generated_package", rmw_file(identifier))>>
    /\ UNCHANGED <<identifier, type_query, rust_type>>

\* rust_type_for_field(field_type, rmw_layer, current_package)
RustTypeForField ==
    /\ identifier = <<>>
    /\ rust_type = None
    /\ rust_type' = Some(rust_type_for_field(type_query.field_type, type_query.rmw_layer,
                                             type_query.current_package))
    /\ UNCHANGED <<identifier, applied, type_query>>

\* ========================================================================
\* Sequence (rosidl-runtime-rs/src/sequence.rs)
\* ========================================================================
Elements == 1..2

\* The vectors of up to MaxSeqLen elements
RECURSIVE VecsUpTo(_)
VecsUpTo(n) ==
    IF n = 0 THEN {<<>>}
    ELSE LET shorter == VecsUpTo(n - 1)
         IN shorter \cup { Append(v, e) : v \in shorter, e \in Elements }

\* ffi::SequenceInner { data, size, capacity }
SequenceInner(is_null, data, size, capacity) ==
    [is_null |-> is_null, data |-> data, size |-> size, capacity |-> capacity]

\* SequenceInner { data: null_mut(), size: 0, capacity: 0 }
EmptyInner == SequenceInner(TRUE, <<>>, 0, 0)

\* Sequence::len
len(s) == s.size

\* Sequence::as_slice
as_slice(s) ==
    IF s.is_null \/ s.size = 0 THEN <<>> ELSE SubSeq(s.data, 1, s.size)

\* impl PartialEq for Sequence
eq(a, b) == as_slice(a) = as_slice(b)

\* impl Clone for Sequence
clone(s) == EmptyInner

\* Sequence::from_slice_converted
from_slice_converted(slice) == EmptyInner

\* impl From<Vec<T>> for Sequence<T>: Sequence::new(vec.len()), then
\* clone_from_slice; a sequence of size 0 has no allocation
from_vec(vec) ==
    IF Len(vec) = 0 THEN EmptyInner
    ELSE SequenceInner(FALSE, vec, Len(vec), Len(vec))

\* Sequence::clone_seq: Sequence::new(self.len())?, then sequence_copy
clone_seq(s, ok) ==
    IF ok THEN Some(from_vec(as_slice(s))) ELSE None

\* impl From<Sequence<T>> for Vec<T>
into_vec(s) == as_slice(s)

Returned(op, value) == [op |-> op, value |-> value]
Nothing == [op |-> "none", value |-> <<>>]

\* No sequence exists (the other specifications)
SequenceIdle ==
    /\ vec_input = <<>>
    /\ sequence = None
    /\ derived = Nothing

\* let seq: Sequence<T> = vec.into()
FromVec ==
    /\ sequence = None
    /\ derived = Nothing
    /\ sequence' = Some(from_vec(vec_input))
    /\ UNCHANGED <<vec_input, derived>>

\* seq.clone()
Clone ==
    /\ sequence # None
    /\ derived = Nothing
    /\ derived' = Returned("clone", clone(sequence[1]))
    /\ UNCHANGED <<vec_input, sequence>>

\* seq.clone_seq()
CloneSeq(ok) ==
    /\ sequence # None
    /\ derived = Nothing
    /\ derived' = Returned("clone_seq", clone_seq(sequence[1], ok))
    /\ UNCHANGED <<vec_input, sequence>>

\* Sequence::from_slice_converted(&vec)
FromSliceConverted ==
    /\ derived = Nothing
    /\ derived' = Returned("from_slice_converted", from_slice_converted(vec_input))
    /\ UNCHANGED <<vec_input, sequence>>

\* let vec: Vec<T> = seq.into()
IntoVec ==
    /\ sequence # None
    /\ derived = Nothing
    /\ derived' = Returned("into_vec", into_vec(sequence[1]))
    /\ UNCHANGED <<vec_input, sequence>>

\* ========================================================================
\* ament_build (cargo-ros2/src/main.rs)
\* ========================================================================
\* all_patches maps a package name to a path; the model keeps where the path
\* comes from
NoPatches == [p \in Pkgs |-> "none"]

\* HashMap::extend / insert: a later path replaces an earlier one
extend(patches, names, origin) ==
    [p \in Pkgs |-> IF p \in names THEN origin ELSE patches[p]]

\* Step 1: the workspace packages (with --lookup-in-workspace), then the
\* installed packages
collect_patches(lookup_in_workspace, workspace_pkgs, installed_pkgs) ==
    extend(IF lookup_in_workspace
           THEN extend(NoPatches, workspace_pkgs, "workspace")
           ELSE NoPatches,
           installed_pkgs, "installed")

\* Step 2b: every directory under target/ros2_bindings, when it can be listed
add_generated(patches, dirs, listed) ==
    IF listed THEN extend(patches, dirs, "generated") ELSE patches

\* The names of the patches handed to patch_cargo_config
patch_names(patches) == { p \in Pkgs : patches[p] # "none" }

\* ament_build is not running (the other specifications)
AmentBuildIdle ==
    /\ ab_pc = "idle"
    /\ all_patches = NoPatches
    /\ ab_result = "none"

\* What ament_build leaves alone of the orchestrator's state
AmentBuildFrame ==
    UNCHANGED <<envVars, runVars, failStep, changed, cleanPrev, touched, aborted,
                rebuild_pending, bindings, read_idl>>

\* ament_build returns Err
AmentBuildFail ==
    /\ ab_pc' = "done"
    /\ ab_result' = "err"

\* Step 1: collect the patches before generating bindings
CollectPatches(lookup_in_workspace, workspace_pkgs, installed_pkgs, ok) ==
    /\ ab_pc = "collect"
    /\ IF ok
       THEN /\ all_patches' = collect_patches(lookup_in_workspace, workspace_pkgs,
                                              installed_pkgs)
            /\ ab_pc' = "run"
            /\ ab_result' = ab_result
       ELSE /\ AmentBuildFail
            /\ all_patches' = all_patches
    /\ AmentBuildFrame
    /\ UNCHANGED calls

\* Step 2: ctx.run(true)
EmbeddedRunStart(ok) ==
    /\ ab_pc = "run"
    /\ pc = "idle"
    /\ RunStart(TRUE, ok)

\* The `?` of ctx.run(true), step 2b and step 3: the generated bindings are
\* added and the unified configuration is written
AfterRun(listed, ok) ==
    /\ ab_pc = "run"
    /\ pc = "done"
    /\ IF result # "ok"
       THEN /\ AmentBuildFail
            /\ UNCHANGED <<all_patches, calls>>
       ELSE LET patches == add_generated(all_patches, bindings, listed)
            IN /\ all_patches' = patches
               /\ calls' = Append(calls, Call("patch_cargo_config",
                                              patch_names(patches), ok))
               /\ IF ok
                  THEN ab_pc' = "build" /\ ab_result' = ab_result
                  ELSE AmentBuildFail
    /\ AmentBuildFrame

\* Step 4: cargo build
AmentCargoBuild(status) ==
    /\ ab_pc = "build"
    /\ IF invoke_cargo_build(status) = "ok"
       THEN ab_pc' = "install" /\ ab_result' = ab_result
       ELSE AmentBuildFail
    /\ AmentBuildFrame
    /\ UNCHANGED <<all_patches, calls>>

\* Steps 5 to 7: package name, library or binary, AmentInstaller::install
AmentInstall(ok) ==
    /\ ab_pc = "install"
    /\ ab_pc' = "done"
    /\ ab_result' = IF ok THEN "ok" ELSE "err"
    /\ AmentBuildFrame
    /\ UNCHANGED <<all_patches, calls>>

\* ========================================================================
\* generate_package as a sequence of steps
\* (cargo-ros2-bindgen/src/generator.rs)
\* ========================================================================
\* The directories msg/, srv/ and action/ of the share directory, each with
\* up to MaxStems files in the order read_dir lists them.
Stems == 1..MaxStems

RECURSIVE Listings(_)
Listings(n) ==
    IF n = 0 THEN {<<>>}
    ELSE LET shorter == Listings(n - 1)
         IN shorter \cup UNION { { Append(l, k) : k \in Stems \ Range(l) } : l \in shorter }

DirOf(listing, extension) ==
    IF listing = <<>> THEN Absent
    ELSE Dir([i \in 1..Len(listing) |-> File(listing[i], extension)])

ShareDirs ==
    { PackageDir(DirOf(m, "msg"), DirOf(s, "srv"), DirOf(a, "action")) :
        m \in Listings(MaxStems), s \in Listings(MaxStems), a \in Listings(MaxStems) }

\* The three loops of generate_package, in the order of the code
Kinds == <<"msg", "srv", "action">>

\* package.interfaces.messages / services / actions
interfaces_of(package, kind) ==
    IF kind = "msg" THEN package.interfaces.messages
    ELSE IF kind = "srv" THEN package.interfaces.services
    ELSE package.interfaces.actions

\* The loop and position that follow position i of loop k: the next name of
\* the same loop, the first name of a later loop, or generate_lib_rs
RECURSIVE position_after(_, _, _)
position_after(package, k, i) ==
    IF k > Len(Kinds) THEN [pc |-> "lib_rs", i |-> 1]
    ELSE IF i + 1 <= Len(interfaces_of(package, Kinds[k]))
    THEN [pc |-> Kinds[k], i |-> i + 1]
    ELSE position_after(package, k + 1, 0)

KindIndex(kind) == CHOOSE k \in 1..Len(Kinds) : Kinds[k] = kind

\* What one pass of a loop body does to one interface file
Event(op, kind, name) == [op |-> op, kind |-> kind, name |-> name, modules |-> <<>>]

\* The steps of a loop body: read_to_string, parse, generate, write
BodySteps == <<"read", "parse", "generate", "write">>

\* How a pass of a loop body ends: "ok", or the step that fails
Outcomes == {"ok", "read", "parse", "generate", "write"}

\* The steps that succeeded, then the error the body returns, if any
body_events(kind, name, outcome) ==
    LET done == IF outcome = "ok" THEN Len(BodySteps)
                ELSE (CHOOSE j \in 1..Len(BodySteps) : BodySteps[j] = outcome) - 1
    IN [j \in 1..done |-> Event(BodySteps[j], kind, name)]
       \o (IF outcome = "ok" THEN <<>> ELSE <<Event("error", kind, name)>>)

\* generate_lib_rs: the `pub mod` declarations, the ffi tree first
lib_rs_modules(package) ==
    LET tree(t) ==
          [j \in 1..Len(package.interfaces.messages) |->
              <<t, "msg", package.interfaces.messages[j]>>]
          \o [j \in 1..Len(package.interfaces.services) |->
              <<t, "srv", package.interfaces.services[j]>>]
          \o [j \in 1..Len(package.interfaces.actions) |->
              <<t, "action", package.interfaces.actions[j]>>]
    IN tree("ffi") \o tree("idiomatic")

FileWritten(file, modules) ==
    [op |-> "write_file", kind |-> file, name |-> 0, modules |-> modules]

\* generate_package is not running (the other specifications)
GenIdle ==
    /\ gen_share = NoShareEntry
    /\ gen_package = NoPackage
    /\ gen_pc = "idle"
    /\ gen_i = 1
    /\ gen_log = <<>>
    /\ gen_result = "none"

\* The error of an interface is dropped and the loop goes on
ProcessInterface_continue(outcome) ==
    /\ gen_pc \in Range(Kinds)
    /\ LET name == interfaces_of(gen_package, gen_pc)[gen_i]
           next == position_after(gen_package, KindIndex(gen_pc), gen_i)
       IN /\ gen_log' = gen_log \o body_events(gen_pc, name, outcome)
          /\ gen_pc' = next.pc
          /\ gen_i' = next.i
          /\ gen_result' = gen_result
    /\ UNCHANGED <<gen_share, gen_package>>

\* generate_package, entry: create_dir_all(package_output)?
CreateOutputDir(ok) ==
    /\ gen_pc = "start"
    /\ IF ok
       THEN /\ gen_pc' = position_after(gen_package, 1, 0).pc
            /\ gen_result' = gen_result
       ELSE /\ gen_pc' = "done"
            /\ gen_result' = "err"
    /\ gen_i' = 1
    /\ UNCHANGED <<gen_share, gen_package, gen_log>>

\* One pass of the body of a loop: read the file, parse it, generate the
\* code, write it; the first failure returns the error
ProcessInterface(outcome) ==
    /\ gen_pc \in Range(Kinds)
    /\ LET name == interfaces_of(gen_package, gen_pc)[gen_i]
           next == position_after(gen_package, KindIndex(gen_pc), gen_i)
       IN /\ gen_log' = gen_log \o body_events(gen_pc, name, outcome)
          /\ IF outcome = "ok"
             THEN /\ gen_pc' = next.pc
                  /\ gen_i' = next.i
                  /\ gen_result' = gen_result
             ELSE /\ gen_pc' = "done"
                  /\ gen_i' = gen_i
                  /\ gen_result' = "err"
    /\ UNCHANGED <<gen_share, gen_package>>

\* generate_lib_rs(&package_output, package)?
GenerateLibRsFile(ok) ==
    /\ gen_pc = "lib_rs"
    /\ IF ok
       THEN /\ gen_log' = Append(gen_log, FileWritten("lib.rs", lib_rs_modules(gen_package)))
            /\ gen_pc' = "cargo_toml"
            /\ gen_result' = gen_result
       ELSE /\ gen_pc' = "done"
            /\ gen_result' = "err"
            /\ gen_log' = gen_log
    /\ UNCHANGED <<gen_share, gen_package, gen_i>>

\* generate_cargo_toml(&package_output, &package.name, &all_dependencies)?
GenerateCargoToml(ok) ==
    /\ gen_pc = "cargo_toml"
    /\ IF ok
       THEN /\ gen_log' = Append(gen_log, FileWritten("Cargo.toml", <<>>))
            /\ gen_pc' = "build_rs"
            /\ gen_result' = gen_result
       ELSE /\ gen_pc' = "done"
            /\ gen_result' = "err"
            /\ gen_log' = gen_log
    /\ UNCHANGED <<gen_share, gen_package, gen_i>>

\* generate_build_rs(&package_output, &package.name)? and Ok(..)
GenerateBuildRs(ok) ==
    /\ gen_pc = "build_rs"
    /\ IF ok
       THEN /\ gen_log' = Append(gen_log, FileWritten("build.rs", <<>>))
            /\ gen_result' = "ok"
       ELSE /\ gen_result' = "err"
            /\ gen_log' = gen_log
    /\ gen_pc' = "done"
    /\ UNCHANGED <<gen_share, gen_package, gen_i>>

\* ========================================================================
\* The specifications of package discovery, the parser, the emitter and
\* the type mapping
\* ========================================================================
InitAment ==
    /\ WorkflowIdle
    /\ SequenceIdle
    /\ AmentBuildIdle
    /\ GenIdle
    /\ ParserIdle
    /\ EmitterIdle
    /\ TypesIdle
    /\ path_string \in PathStrings
    /\ \E named \in [Named(path_string) -> PrefixStates] :
          fs = [p \in Prefixes |-> IF p \in DOMAIN named THEN named[p] ELSE NoPrefix]
    /\ index = NotBuilt
    /\ found = NotAsked

\* The workflow and the parser do not move
OnlyAment == UNCHANGED <<workflowVars, parserVars, emitterVars, typesVars,
        genVars, abVars, seqVars>>

NextAment ==
    \/ FromPathString /\ OnlyAment
    \/ \E name \in Names : FindPackage(name) /\ OnlyAment

SpecAment == InitAment /\ [][NextAment]_vars

InitParser ==
    /\ WorkflowIdle
    /\ SequenceIdle
    /\ AmentBuildIdle
    /\ GenIdle
    /\ AmentIdle
    /\ EmitterIdle
    /\ TypesIdle
    /\ tokens \in Inputs(MaxLines)
    /\ position = 0
    /\ entry_point = "none"
    /\ sections = <<>>
    /\ message = EmptyMessage
    /\ parsed = NotParsed

\* The workflow and the discovery do not move
OnlyParser == UNCHANGED <<workflowVars, amentVars, emitterVars, typesVars,
        genVars, abVars, seqVars>>

NextParser ==
    \/ ParseMessage /\ OnlyParser
    \/ ParseService /\ OnlyParser
    \/ ParseAction /\ OnlyParser
    \/ ParseFieldOrConstant /\ OnlyParser
    \/ ExpectTripleDash /\ OnlyParser
    \/ Return /\ OnlyParser

SpecParser == InitParser /\ [][NextParser]_vars

InitEmitter ==
    /\ WorkflowIdle
    /\ SequenceIdle
    /\ AmentBuildIdle
    /\ GenIdle
    /\ AmentIdle
    /\ ParserIdle
    /\ TypesIdle
    /\ emitting_package \in PackageNames
    /\ interface \in Messages
    /\ all_dependencies \in SUBSET {PkgB}
    /\ emitted = NotEmitted

\* The workflow, the discovery and the parser do not move
OnlyEmitter == UNCHANGED <<workflowVars, amentVars, parserVars, typesVars,
        genVars, abVars, seqVars>>

NextEmitter ==
    \/ ExtractDependencies /\ OnlyEmitter
    \/ NeedsBigArray /\ OnlyEmitter
    \/ GenerateMessagePackage /\ OnlyEmitter
    \/ GeneratePackage /\ OnlyEmitter

SpecEmitter == InitEmitter /\ [][NextEmitter]_vars

\* Either a string for the identifier helpers or a call of
\* rust_type_for_field
InitTypes ==
    /\ WorkflowIdle
    /\ SequenceIdle
    /\ AmentBuildIdle
    /\ GenIdle
    /\ AmentIdle
    /\ ParserIdle
    /\ EmitterIdle
    /\ applied = <<>>
    /\ rust_type = None
    /\ \/ identifier \in Identifiers \cup TypeNames /\ type_query = NoQuery
       \/ identifier = <<>> /\ type_query \in TypeQueries

\* The other components do not move
OnlyTypes == UNCHANGED <<workflowVars, amentVars, parserVars, emitterVars,
        genVars, abVars, seqVars>>

NextTypes ==
    \/ EscapeKeyword /\ OnlyTypes
    \/ ToUpperCamelCase /\ OnlyTypes
    \/ ToSnakeCase /\ OnlyTypes
    \/ RustTypeForField /\ OnlyTypes
    \/ GenerateLibRs /\ OnlyTypes
    \/ WriteGeneratedPackage /\ OnlyTypes

SpecTypes == InitTypes /\ [][NextTypes]_vars

\* generate_package applied to the package of a share directory
InitPackage ==
    /\ WorkflowIdle
    /\ SequenceIdle
    /\ AmentBuildIdle
    /\ AmentIdle
    /\ ParserIdle
    /\ EmitterIdle
    /\ TypesIdle
    /\ gen_share \in ShareDirs
    /\ gen_package = from_share_dir(<<<<1>>, 1>>, gen_share)
    /\ gen_pc = "start"
    /\ gen_i = 1
    /\ gen_log = <<>>
    /\ gen_result = "none"

\* The other components do not move
OnlyPackage == UNCHANGED <<workflowVars, amentVars, parserVars, emitterVars, typesVars,
        abVars, seqVars>>

NextPackage ==
    \/ \E ok \in BOOLEAN : CreateOutputDir(ok) /\ OnlyPackage
    \/ \E outcome \in Outcomes : ProcessInterface(outcome) /\ OnlyPackage
    \/ \E ok \in BOOLEAN : GenerateLibRsFile(ok) /\ OnlyPackage
    \/ \E ok \in BOOLEAN : GenerateCargoToml(ok) /\ OnlyPackage
    \/ \E ok \in BOOLEAN : GenerateBuildRs(ok) /\ OnlyPackage

SpecPackage == InitPackage /\ [][NextPackage]_vars

\* ========================================================================
\* The workflow specification
\* ========================================================================
Init == WorkflowInit /\ AmentIdle /\ ParserIdle /\ EmitterIdle /\ TypesIdle
        /\ SequenceIdle
        /\ AmentBuildIdle
        /\ GenIdle

\* The discovery and the parser do not move
OnlyWorkflow == UNCHANGED <<amentVars, parserVars, emitterVars, typesVars,
        genVars, abVars, seqVars>>

Next ==
    \/ \E p \in Pkgs, c \in Contents : ModifyIdl(p, c) /\ OnlyWorkflow
    \/ \E p \in Pkgs : ChangeIndex(p) /\ OnlyWorkflow
    \/ \E p \in Pkgs : EditManifest(p) /\ OnlyWorkflow
    \/ \E p \in Pkgs : CacheRebuild(p) /\ OnlyWorkflow
    \/ \E bo \in BOOLEAN, ok \in BOOLEAN : RunStart(bo, ok) /\ OnlyWorkflow
    \/ \E ok \in BOOLEAN : DiscoverDeps(ok) /\ OnlyWorkflow
    \/ \E ok \in BOOLEAN : CheckCache(ok) /\ OnlyWorkflow
    \/ \E ok \in BOOLEAN : GenerateBindings(ok) /\ OnlyWorkflow
    \/ \E ok \in BOOLEAN : UpdateCache(ok) /\ OnlyWorkflow
    \/ \E ok \in BOOLEAN : PatchConfig(ok) /\ OnlyWorkflow
    \/ \E status \in BuildStatuses : InvokeCargoBuild(status) /\ OnlyWorkflow
    \/ Interrupt /\ OnlyWorkflow

Spec == Init /\ [][Next]_vars

\* ========================================================================
\* Runs of the workflow with the bindings directory as the only thing that
\* changes between them: the cache file, the IDL files, the index and the
\* manifest stay as they are
\* ========================================================================
NextBindings ==
    \/ \E p \in Pkgs : DeleteBindings(p) /\ OnlyWorkflow
    \/ \E bo \in BOOLEAN, ok \in BOOLEAN : RunStart(bo, ok) /\ OnlyWorkflow
    \/ \E ok \in BOOLEAN : DiscoverDeps(ok) /\ OnlyWorkflow
    \/ \E ok \in BOOLEAN : CheckCache(ok) /\ OnlyWorkflow
    \/ \E ok \in BOOLEAN : GenerateBindings(ok) /\ OnlyWorkflow
    \/ \E ok \in BOOLEAN : UpdateCache(ok) /\ OnlyWorkflow
    \/ \E ok \in BOOLEAN : PatchConfig(ok) /\ OnlyWorkflow
    \/ \E status \in BuildStatuses : InvokeCargoBuild(status) /\ OnlyWorkflow

SpecBindings == Init /\ [][NextBindings]_vars

\* ========================================================================
\* A Sequence made from a vector, and one operation on it
\* ========================================================================
InitSequence ==
    /\ WorkflowIdle
    /\ AmentIdle
    /\ ParserIdle
    /\ EmitterIdle
    /\ TypesIdle
    /\ GenIdle
    /\ AmentBuildIdle
    /\ vec_input \in VecsUpTo(MaxSeqLen)
    /\ sequence = None
    /\ derived = Nothing

OnlySequence == UNCHANGED <<workflowVars, amentVars, parserVars, emitterVars, typesVars,
        genVars, abVars>>

NextSequence ==
    \/ FromVec /\ OnlySequence
    \/ Clone /\ OnlySequence
    \/ \E ok \in BOOLEAN : CloneSeq(ok) /\ OnlySequence
    \/ FromSliceConverted /\ OnlySequence
    \/ IntoVec /\ OnlySequence

SpecSequence == InitSequence /\ [][NextSequence]_vars

\* ========================================================================
\* One invocation of `cargo ros2 ament-build` in a fresh project
\* ========================================================================
InitAmentBuild ==
    /\ WorkflowInit
    /\ AmentIdle
    /\ ParserIdle
    /\ EmitterIdle
    /\ TypesIdle
    /\ GenIdle
    /\ SequenceIdle
    /\ ab_pc = "collect"
    /\ all_patches = NoPatches
    /\ ab_result = "none"

\* ament_build's own steps leave the other components alone
OnlyAmentBuild == UNCHANGED <<amentVars, parserVars, emitterVars, typesVars, genVars,
        seqVars>>

NextAmentBuild ==
    \/ \E l \in BOOLEAN, w \in SUBSET Pkgs, i \in SUBSET Pkgs, ok \in BOOLEAN :
          CollectPatches(l, w, i, ok) /\ OnlyAmentBuild
    \/ \E ok \in BOOLEAN : EmbeddedRunStart(ok) /\ OnlyWorkflow
    \/ \E ok \in BOOLEAN : DiscoverDeps(ok) /\ OnlyWorkflow
    \/ \E ok \in BOOLEAN : CheckCache(ok) /\ OnlyWorkflow
    \/ \E ok \in BOOLEAN : GenerateBindings(ok) /\ OnlyWorkflow
    \/ \E ok \in BOOLEAN : UpdateCache(ok) /\ OnlyWorkflow
    \/ \E ok \in BOOLEAN : PatchConfig(ok) /\ OnlyWorkflow
    \/ \E listed \in BOOLEAN, ok \in BOOLEAN : AfterRun(listed, ok) /\ OnlyAmentBuild
    \/ \E status \in BuildStatuses : AmentCargoBuild(status) /\ OnlyAmentBuild
    \/ \E ok \in BOOLEAN : AmentInstall(ok) /\ OnlyAmentBuild

SpecAmentBuild == InitAmentBuild /\ [][NextAmentBuild]_vars

\* ========================================================================
\* Properties of the workflow (checked under Spec)
\* ========================================================================
RunReturned == pc = "done" /\ result \in {"ok", "err"}

\* The dependencies of this run that the index of step 1 knows
IndexedDeps == {d \in Range(dependencies) : d \in ament_packages}

\* C1: of two consecutive successful full runs (bindings_only = false) with
\* no IDL file, manifest or index edited from the start of the first to the
\* end of the second, the second calls generate_bindings zero times and
\* invokes cargo build exactly once.
C1_SecondRunSkipsGeneration ==
    (pc = "done" /\ result = "ok" /\ ~bindings_only /\ cleanPrev /\ ~changed)
        => /\ CallsOf("generate_bindings") = <<>>
           /\ Len(CallsOf("invoke_cargo_build")) = 1

C1_Witness ==
    /\ pc = "done" /\ result = "ok" /\ ~bindings_only /\ cleanPrev /\ ~changed
    /\ IndexedDeps # {}
    /\ \A d \in IndexedDeps : cacheFile[d] # NoEntry

\* C2: check_cache returns exactly the dependencies present in the package
\* index for which the cache has no entry or a stored checksum different
\* from the checksum recomputed from the share directory, each once; a
\* dependency whose entry carries the current checksum is not returned.
C2_CheckCacheExact ==
    [][(pc = "check_cache" /\ pc' \in {"generate", "patch"})
        => /\ Range(to_generate') =
                {d \in IndexedDeps :
                    \/ cacheFile[d] = NoEntry
                    \/ cacheFile[d] # calculate_package_checksum(idl[d])}
           /\ Cardinality(Range(to_generate')) = Len(to_generate')]_vars

C2_Witness ==
    /\ pc = "generate" /\ calls = <<>> /\ touched = {}
    /\ \E d \in Range(to_generate) : cacheFile[d] # NoEntry
    /\ \E d \in IndexedDeps \ Range(to_generate) :
          cacheFile[d] = calculate_package_checksum(idl[d])

\* C3: within one run no cache save happens while a package of the
\* to-generate list is still waiting to be generated.
C3_SaveOnlyAfterAllGenerated ==
    [][(pc = "update_cache" /\ cacheFile' = update_cache(cacheFile, to_generate[gi], idl)
          /\ calls' = Append(calls, Call("update_cache", to_generate[gi], TRUE)))
        => gi' > Len(to_generate)]_vars

\* C4: when a run is interrupted or fails while generating package g, and
\* the IDL files of g are not edited after the run's cache check, the
\* persisted cache holds no entry for g that is valid for the current IDL
\* contents; the next run that has g as a dependency found in the index
\* puts g in its to-generate list, and cannot succeed without calling
\* generate_bindings for g.
C4_AbortedIsRegenerated ==
    \A g \in aborted :
        /\ ~is_valid(cacheFile, g, calculate_package_checksum(idl[g]))
        /\ (pc \in {"generate", "update_cache", "patch", "build"}
              /\ g \in IndexedDeps) => g \in Range(to_generate)
        /\ (pc \in {"patch", "build"} \/ (pc = "done" /\ result = "ok"))
              => g \notin IndexedDeps

C4_Witness ==
    /\ pc = "generate"
    /\ to_generate[gi] \in aborted
    /\ cacheFile[to_generate[gi]] # NoEntry
    /\ calls = <<>>

\* C5: in every successful run with at least one ROS dependency the config
\* patcher receives a pair for every dependency found in the package index,
\* the regenerated ones and the ones skipped on a valid cache entry.
C5_PatcherGetsEveryDependency ==
    (pc = "done" /\ result = "ok" /\ dependencies # <<>>)
        => /\ Len(CallsOf("patch_cargo_config")) = 1
           /\ CallsOf("patch_cargo_config")[1].arg = IndexedDeps

\* C6: the first failing step aborts the run: once generate_bindings or
\* update_cache has failed for a package, run has returned an error and no
\* later call (no generation of a later package, no patch of the build
\* configuration, no build) was made.
C6_FirstFailureAborts ==
    \A i \in 1..Len(calls) :
        (calls[i].fn \in {"generate_bindings", "update_cache"} /\ ~calls[i].ok)
            => /\ i = Len(calls)
               /\ pc = "done"
               /\ result = "err"

C6_Witness ==
    /\ pc = "done" /\ result = "err" /\ failStep = "generate"
    /\ Len(calls) > 0 /\ ~calls[Len(calls)].ok
    /\ gi < Len(to_generate)
    /\ ~bindings_only

\* C7: run(bindings_only = false) propagates the exit status of the build
\* tool: when every earlier step succeeded the build tool is invoked once,
\* and run returns Ok iff the child exited with success; also on the path
\* without ROS dependencies.
C7_BuildStatusPropagated ==
    (RunReturned /\ ~bindings_only /\ failStep \in {"none", "build"})
        => LET b == CallsOf("invoke_cargo_build")
           IN /\ Len(b) = 1
              /\ result = "ok" <=> b[1].arg = "success"

C7_Witness ==
    /\ RunReturned /\ ~bindings_only /\ dependencies = <<>>
    /\ calls # <<>> /\ calls[Len(calls)].fn = "invoke_cargo_build"
    /\ calls[Len(calls)].arg = "failed"
    /\ result = "err"

\* C23: within one run the package index is read once and every later step
\* uses that snapshot: the known packages that filtered the project
\* dependencies are the packages whose share directories step 1 recorded,
\* so the dependencies of the run are exactly the manifest names of that
\* snapshot, whatever is installed or removed during the run.
C23_SingleDiscoveryPass ==
    pc \in {"check_cache", "generate", "update_cache", "patch"}
        => Range(dependencies) = manifest \cap ament_packages

\* A step of `cache rebuild`: the only command that edits nothing but the
\* cache file
IsCacheRebuildStep ==
    /\ edits' = edits + 1
    /\ idl' = idl /\ installed' = installed /\ manifest' = manifest

\* C24: `cache rebuild <package>` leaves the cache without an entry for the
\* package and every other entry unchanged, and the next run that has the
\* package as a dependency found in the index regenerates it although its
\* IDL files did not change: the package is in the to-generate list and the
\* run cannot get past step 4 without generating it.
C24_RebuildForcesRegeneration ==
    /\ [](\A g \in rebuild_pending :
            /\ cacheFile[g] = NoEntry
            /\ (pc \in {"generate", "update_cache"} /\ g \in IndexedDeps)
                    => g \in Range(to_generate)
            /\ pc \in {"patch", "build"} => g \notin IndexedDeps)
    /\ [][IsCacheRebuildStep =>
            \E p \in Pkgs :
                /\ cacheFile'[p] = NoEntry
                /\ \A q \in Pkgs \ {p} : cacheFile'[q] = cacheFile[q]]_vars

C24_Witness ==
    /\ pc = "generate"
    /\ to_generate[gi] \in rebuild_pending
    /\ idl[to_generate[gi]] = 1
    /\ touched = {}

\* A step of update_cache that stores the entry of to_generate[gi]
IsUpdateCacheStore ==
    /\ pc = "update_cache"
    /\ pc' \in {"generate", "patch"}
    /\ to_generate[gi] \in ament_packages

\* C28: the checksum that update_cache stores for a package is the checksum
\* of the IDL contents generate_bindings read for it, also when an IDL file
\* of the package is edited between the two calls.
C28_ChecksumOfGeneratedFrom ==
    [][IsUpdateCacheStore =>
          cacheFile'[to_generate[gi]] = calculate_package_checksum(read_idl)]_vars

\* ========================================================================
\* Properties of the bindings directory (checked under SpecBindings)
\* ========================================================================
\* C29: a dependency of the index that the run does not generate, because
\* its cache entry is valid, has its directory under target/ros2_bindings;
\* and when a run has returned Ok and nothing was deleted since it started,
\* every dependency of the index has its directory, also when the directory
\* had been deleted after the previous run.
C29_SkippedHaveBindings ==
    /\ pc \in {"generate", "update_cache", "patch", "build"} =>
          \A d \in IndexedDeps \ Range(to_generate) : d \in bindings
    /\ (pc = "done" /\ result = "ok" /\ ~changed) =>
          \A d \in IndexedDeps : d \in bindings

\* ========================================================================
\* Properties of ament_build (checked under SpecAmentBuild)
\* ========================================================================
\* The positions of the call log at which .cargo/config.toml was written
ConfigWrites ==
    { j \in 1..Len(calls) : calls[j].fn = "patch_cargo_config" /\ calls[j].ok }

\* C27: one ament-build invocation writes .cargo/config.toml at most once;
\* the embedded run(true) does not write it; and once ament_build is past
\* its step 3 the one write is the one with the union of the workspace,
\* installed and generated patches.
C27_ConfigWrittenOnce ==
    /\ Cardinality(ConfigWrites) <= 1
    /\ ab_pc = "run" => ConfigWrites = {}
    /\ ab_pc \in {"build", "install"} \/ ab_result = "ok" =>
          \E j \in ConfigWrites : calls[j].arg = patch_names(all_patches)

\* ========================================================================
\* Properties of package discovery (checked under SpecAment)
\* ========================================================================
Segments == split(path_string, Separator)

\* Directory <segment>/share/<name> exists below an existing prefix
IsPackageDir(segment, n) ==
    /\ exists(fs, segment)
    /\ fs[segment[1]].share # "absent"
    /\ fs[segment[1]].entries[n].kind = "dir"

\* <dir> holds at least one regular file with the extension
HoldsFile(dir, extension) ==
    /\ dir.state = "dir"
    /\ \E k \in 1..Len(dir.entries) :
          dir.entries[k].is_file /\ dir.entries[k].ext = extension

\* The package directory contains at least one .msg file in msg/, .srv file
\* in srv/ or .action file in action/
ContainsInterface(segment, n) ==
    /\ IsPackageDir(segment, n)
    /\ LET entry == fs[segment[1]].entries[n]
       IN \/ HoldsFile(entry.msg, "msg")
          \/ HoldsFile(entry.srv, "srv")
          \/ HoldsFile(entry.action, "action")

\* <prefix>/share and each of msg/, srv/, action/ that exists in the package
\* directory can be listed
Listable(segment, n) ==
    LET entry == fs[segment[1]].entries[n]
    IN /\ fs[segment[1]].share = "dir"
       /\ entry.msg.state # "unreadable"
       /\ entry.srv.state # "unreadable"
       /\ entry.action.state # "unreadable"

\* Package n with at least one interface exists under the segment
Provides(segment, n) ==
    /\ IsPackageDir(segment, n)
    /\ fs[segment[1]].share = "dir"
    /\ from_share_dir(<<segment, n>>, fs[segment[1]].entries[n]).ok
    /\ has_interfaces(from_share_dir(<<segment, n>>, fs[segment[1]].entries[n]))

\* C8: discovery is first-wins: when the same package name (with at least
\* one interface) exists under two prefixes P1 and P2 of the search path and
\* P1 comes before P2, from_path_string followed by find_package returns
\* the package whose share_dir is under P1.
C8_FirstWins ==
    \A n \in Names : \A i, j \in 1..Len(Segments) :
        ( /\ found.asked = n
          /\ i < j
          /\ Segments[i] # Segments[j]
          /\ Provides(Segments[i], n)
          /\ Provides(Segments[j], n)
          /\ \A k \in 1..(i - 1) : ~Provides(Segments[k], n) )
        => /\ found.package.ok
           /\ found.package.share_dir = <<Segments[i], n>>

IsScreamingSnakeCase(name) == name \in {"MAX_SIZE"}

\* Positions of the member names that are followed by `=` and a value
NamesWithEquals ==
    { i \in 2..Len(tokens) :
        /\ tokens[i].kind = "Identifier"
        /\ current_kind(tokens, i + 1) = "Equals"
        /\ i + 2 <= Len(tokens) }

\* C10: for a member line `Type name = value` the parser records a
\* constant when name is SCREAMING_SNAKE_CASE and otherwise a field whose
\* default_value is the parsed value; a lower-case name followed by `=`
\* never ends up in Message.constants.
C10_ClassifiedByCase ==
    (parsed.entry = "message" /\ parsed.ok) =>
        /\ \A k \in 1..Len(parsed.val.constants) :
              IsScreamingSnakeCase(parsed.val.constants[k].name)
        /\ \A i \in NamesWithEquals :
              IF IsScreamingSnakeCase(tokens[i].text)
              THEN \E k \in 1..Len(parsed.val.constants) :
                      parsed.val.constants[k].name = tokens[i].text
              ELSE \E k \in 1..Len(parsed.val.fields) :
                      /\ parsed.val.fields[k].name = tokens[i].text
                      /\ parsed.val.fields[k].default_value # None

\* Number of `---` tokens of the input
TripleDashCount == Cardinality({ i \in 1..Len(tokens) : tokens[i].kind = "TripleDash" })

\* C11: a `---` outside a service/action boundary is rejected: an entry
\* point that returns Ok has consumed every token, so the input of
\* parse_message holds no `---`, that of parse_service exactly one and that
\* of parse_action exactly two.
C11_TripleDashRejected ==
    (parsed.entry # "none" /\ parsed.ok) =>
        /\ parsed.pos = Len(tokens) + 1
        /\ TripleDashCount = SectionCount[parsed.entry] - 1

\* Position of the k-th `---` of the input; past the end when there is none
RECURSIVE NthTripleDash(_)
NthTripleDash(k) ==
    IF k = 0 THEN 0
    ELSE LET later == { i \in 1..Len(tokens) :
                          tokens[i].kind = "TripleDash" /\ i > NthTripleDash(k - 1) }
         IN IF later = {} THEN Len(tokens) + 1 ELSE Min(later)

\* The tokens of the k-th section: after the (k-1)-th `---`, before the k-th
SectionTokens(k) == SubSeq(tokens, NthTripleDash(k - 1) + 1, NthTripleDash(k) - 1)

\* The identifier at i is the name of a member (not a part of `pkg/Type`)
IsMemberName(s, i) ==
    /\ i > 1
    /\ s[i].kind = "Identifier"
    /\ s[i - 1].kind # "Slash"
    /\ (i = Len(s) \/ s[i + 1].kind # "Slash")

\* The member names of a section in declaration order
RECURSIVE DeclaredFrom(_, _)
DeclaredFrom(s, i) ==
    IF i > Len(s) THEN <<>>
    ELSE (IF IsMemberName(s, i) THEN <<s[i].text>> ELSE <<>>) \o DeclaredFrom(s, i + 1)

RECURSIVE IsSubsequence(_, _)
IsSubsequence(a, b) ==
    IF a = <<>> THEN TRUE
    ELSE IF b = <<>> THEN FALSE
    ELSE IF Head(a) = Head(b) THEN IsSubsequence(Tail(a), Tail(b))
    ELSE IsSubsequence(a, Tail(b))

\* Message m holds the members declared in section k, each list in
\* declaration order
HoldsSection(m, k) ==
    LET declared == DeclaredFrom(SectionTokens(k), 1)
    IN /\ Len(m.fields) + Len(m.constants) = Len(declared)
       /\ IsSubsequence([j \in 1..Len(m.fields) |-> m.fields[j].name], declared)
       /\ IsSubsequence([j \in 1..Len(m.constants) |-> m.constants[j].name], declared)

\* C12: parse_service splits at the first `---` into request and response
\* and fails without a `---`; parse_action splits at the first two `---`
\* into goal, result and feedback and fails with fewer than two; the
\* members of each section keep their declaration order.
C12_SplitsAtTripleDash ==
    /\ (parsed.entry = "service" /\ parsed.ok) =>
          /\ TripleDashCount >= 1
          /\ HoldsSection(parsed.val.request, 1)
          /\ HoldsSection(parsed.val.response, 2)
    /\ (parsed.entry = "action" /\ parsed.ok) =>
          /\ TripleDashCount >= 2
          /\ HoldsSection(parsed.val.spec.goal, 1)
          /\ HoldsSection(parsed.val.spec.result, 2)
          /\ HoldsSection(parsed.val.spec.feedback, 3)
    /\ (parsed.entry = "service" /\ TripleDashCount < 1) => ~parsed.ok
    /\ (parsed.entry = "action" /\ TripleDashCount < 2) => ~parsed.ok

\* A service whose request declares two members with different names
C12_Witness ==
    /\ parsed.entry = "service"
    /\ parsed.ok
    /\ Len(parsed.val.request.fields) = 2
    /\ parsed.val.request.fields[1].name # parsed.val.request.fields[2].name

\* The messages of the returned AST
ParsedMessages ==
    IF parsed.entry = "message" THEN <<parsed.val>>
    ELSE IF parsed.entry = "service" THEN <<parsed.val.request, parsed.val.response>>
    ELSE <<parsed.val.spec.goal, parsed.val.spec.result, parsed.val.spec.feedback>>

\* C22: every FieldType::Array of an AST returned by parse_message,
\* parse_service or parse_action has size n >= 1: an array suffix `[0]` or a
\* negative size is rejected, no Array of size 0 or of a wrapped-around
\* size is produced.
C22_ArraySizeAtLeastOne ==
    (parsed.entry # "none" /\ parsed.ok) =>
        \A k \in 1..Len(ParsedMessages) :
            LET m == ParsedMessages[k]
            IN /\ \A i \in 1..Len(m.fields) :
                     m.fields[i].field_type.tag = "Array" =>
                        /\ m.fields[i].field_type.size.wraps = 0
                        /\ m.fields[i].field_type.size.rem >= 1
               /\ \A i \in 1..Len(m.constants) :
                     m.constants[i].constant_type.tag = "Array" =>
                        /\ m.constants[i].constant_type.size.wraps = 0
                        /\ m.constants[i].constant_type.size.rem >= 1

\* ========================================================================
\* Properties of the analyzer and the manifests (checked under SpecEmitter)
\* ========================================================================
\* Type t is, or contains at some depth, a NamespacedType of package p
RECURSIVE Mentions(_, _)
Mentions(t, p) ==
    \/ t.tag = "NamespacedType" /\ t.package = Some(p)
    \/ t.tag \in {"Array", "Sequence", "BoundedSequence"} /\ Mentions(t.element_type, p)

\* The packages of the NamespacedTypes anywhere in the parsed interface
MentionedPackages ==
    { p \in PackageNames :
        \/ \E i \in 1..Len(interface.fields) : Mentions(interface.fields[i].field_type, p)
        \/ \E i \in 1..Len(interface.constants) :
              Mentions(interface.constants[i].constant_type, p) }

\* The dependency keys of the emitted manifest besides the fixed ones
ManifestDependencies ==
    { emitted.manifest.dependencies[i] : i \in 1..Len(emitted.manifest.dependencies) }

ManifestEmitted == emitted.op \in {"generate_message_package", "generate_package"}

\* C13: dependency closure of the emitted manifest: every package p other
\* than the emitting one that a NamespacedType of the interface names, at any
\* depth, is a dependency of the manifest, and every dependency of the
\* manifest is the package of some NamespacedType of the interface.
C13_DependencyClosure ==
    ManifestEmitted =>
        /\ \A p \in MentionedPackages \ {emitting_package} :
              replace_dash(p) \in ManifestDependencies
        /\ \A d \in ManifestDependencies :
              \E p \in MentionedPackages : replace_dash(p) = d

\* C14: a package never depends on itself: when the interface of the
\* emitting package P has a member of type P/Name, P is neither in the
\* dependency set returned for the interface nor among the dependencies of a
\* manifest emitted for P by generate_message_package or generate_package.
C14_NoSelfDependency ==
    emitting_package \in MentionedPackages =>
        /\ emitted.op = "extract_dependencies" => emitting_package \notin emitted.deps
        /\ ManifestEmitted => replace_dash(emitting_package) \notin ManifestDependencies

\* The type and the element types nested in it, at every depth
RECURSIVE Nested(_)
Nested(t) ==
    IF t.tag \in {"Array", "Sequence", "BoundedSequence"}
    THEN {t} \cup Nested(t.element_type)
    ELSE {t}

\* The type is, or contains at some depth, a fixed array of more than 32
\* elements
ContainsLargeArray(t) ==
    \E u \in Nested(t) : u.tag = "Array" /\ (u.size.wraps > 0 \/ u.size.rem >= 33)

SomeFieldContainsLargeArray ==
    \E i \in 1..Len(interface.fields) : ContainsLargeArray(interface.fields[i].field_type)

\* C15: needs_big_array(message) is true iff the type of some field is, or
\* contains at any depth through array and sequence element types, a fixed
\* array of size > 32 (32 gives false, 33 gives true), and the manifest of
\* generate_message_package has the large-array helper exactly then.
C15_BigArrayIffLargeArray ==
    /\ emitted.op = "needs_big_array" =>
          (emitted.needs_big_array <=> SomeFieldContainsLargeArray)
    /\ emitted.op = "generate_message_package" =>
          /\ emitted.needs_big_array <=> SomeFieldContainsLargeArray
          /\ emitted.manifest.big_array <=> SomeFieldContainsLargeArray

C15_Witness ==
    /\ emitted.op = "generate_message_package"
    /\ emitted.manifest.big_array
    /\ \E i \in 1..Len(interface.fields) :
          LET t == interface.fields[i].field_type
          IN /\ t.tag = "Array" /\ t.size.rem = 32
             /\ t.element_type.tag = "Array" /\ t.element_type.size.rem = 33


\* C19: emission is deterministic: the manifest of generate_package and of
\* generate_message_package is fixed by the inputs, its dependency lines
\* being written in sorted order whatever the iteration order of the set.
C19_ManifestOrderSorted ==
    ManifestEmitted =>
        \A i, j \in 1..Len(emitted.manifest.dependencies) :
            i < j => StrLess(emitted.manifest.dependencies[i],
                             emitted.manifest.dependencies[j])

\* C20: every package name written as a crate name in a generated manifest
\* (the name of the package and each dependency key) has every `-` replaced
\* by `_`, while the output directory keeps the IDL name.
C20_CrateNamesSanitized ==
    ManifestEmitted =>
        /\ emitted.manifest.name = replace_dash(emitting_package)
        /\ \A d \in ManifestDependencies : \A i \in 1..Len(d) : d[i] # "-"
        /\ emitted.op = "generate_package" => emitted.output_dir = emitting_package

\* ========================================================================
\* Properties of the type mapping and the identifier helpers (checked
\* under SpecTypes)
\* ========================================================================
\* C16: escape_keyword is idempotent: escaping the result of escape_keyword
\* gives the same string, for keywords, escaped keywords and other
\* identifiers; no keyword with an underscore appended is itself a keyword.
C16_EscapeIdempotent ==
    /\ \A i \in 1..(Len(applied) - 1) :
          (applied[i].fn = "escape_keyword" /\ applied[i + 1].fn = "escape_keyword")
              => applied[i + 1].out = applied[i].out
    /\ \A k \in RUST_KEYWORDS : Append(k, "_") \notin RUST_KEYWORDS

C16_Witness ==
    /\ identifier \in RUST_KEYWORDS
    /\ Len(applied) = 2
    /\ applied[1].fn = "escape_keyword" /\ applied[2].fn = "escape_keyword"
    /\ applied[1].out = Append(identifier, "_")
    /\ applied[2].out = applied[1].out

\* s matches [a-z][a-z0-9_]*
MatchesSnakePattern(s) ==
    /\ s # <<>>
    /\ is_lowercase(s[1])
    /\ \A i \in 1..Len(s) : is_lowercase(s[i]) \/ s[i] \in Digits \/ s[i] = "_"

\* C17: case-conversion round trip: to_snake_case(to_upper_camel_case(s)) = s
\* for every s matching [a-z][a-z0-9_]*, also with a digit after an
\* underscore, consecutive underscores or a trailing underscore.
C17_CaseRoundTrip ==
    ( /\ MatchesSnakePattern(identifier)
      /\ Len(applied) = 2
      /\ applied[1].fn = "to_upper_camel_case"
      /\ applied[2].fn = "to_snake_case" )
        => applied[2].out = identifier

\* The path the claim gives for a NamespacedType: root, the layer's module,
\* the snake_case module of the interface, the interface
RECURSIVE JoinPath(_)
JoinPath(segments) ==
    IF Len(segments) = 1 THEN segments[1]
    ELSE segments[1] \o <<":", ":">> \o JoinPath(Tail(segments))

ExpectedPath(root, rmw_layer, name) ==
    JoinPath(<<root>>
             \o (IF rmw_layer THEN <<(<<"f", "f", "i">>)>> ELSE <<>>)
             \o <<(<<"m", "s", "g">>), to_snake_case(name), name>>)

C21_ModuleNameIsSnakeCase ==
    (Len(applied) >= 1 /\ identifier \in TypeNames) =>
        /\ applied[1].fn = "generate_lib_rs" =>
              /\ applied[1].out = to_snake_case(identifier)
              /\ \A layer \in BOOLEAN :
                    JoinPath(<<StrCrate>>
                             \o (IF layer THEN <<(<<"f", "f", "i">>)>> ELSE <<>>)
                             \o <<(<<"m", "s", "g">>), applied[1].out, identifier>>)
                        = rust_type_for_field(Namespaced(None, identifier), layer, None)
        /\ applied[1].fn = "write_generated_package" =>
              applied[1].out = to_snake_case(identifier) \o StrRmwRs

\* ========================================================================
\* Properties of generate_package (checked under SpecPackage)
\* ========================================================================
PackageFiles == {"lib.rs", "Cargo.toml", "build.rs"}

\* The positions of the log at which a package file was written
WritesOf(file) ==
    { j \in 1..Len(gen_log) : gen_log[j].op = "write_file" /\ gen_log[j].kind = file }

\* Every interface of the package
InterfacesOfPackage ==
    UNION { { <<Kinds[k], name>> : name \in Range(interfaces_of(gen_package, Kinds[k])) } :
            k \in 1..Len(Kinds) }

\* The body step `op` of the interface was logged before position j
DoneBefore(op, iface, j) ==
    \E h \in 1..(j - 1) :
        gen_log[h].op = op /\ gen_log[h].kind = iface[1] /\ gen_log[h].name = iface[2]

SomeInterfaceFailed == \E j \in 1..Len(gen_log) : gen_log[j].op = "error"

\* C25: generate_package writes lib.rs, Cargo.toml and build.rs at most once
\* each, and exactly once each when it returns Ok; each of them is written
\* only after every message, service and action of the package was read,
\* parsed, generated and written; and once an interface has failed, the call
\* is over with an error and none of the three files was written.
C25_PackageFilesOnceAfterInterfaces ==
    /\ \A f \in PackageFiles : Cardinality(WritesOf(f)) <= 1
    /\ gen_result = "ok" => \A f \in PackageFiles : Cardinality(WritesOf(f)) = 1
    /\ \A f \in PackageFiles : \A j \in WritesOf(f) :
          \A iface \in InterfacesOfPackage : \A s \in 1..Len(BodySteps) :
              DoneBefore(BodySteps[s], iface, j)
    /\ SomeInterfaceFailed =>
          /\ gen_pc = "done"
          /\ gen_result = "err"
          /\ \A f \in PackageFiles : WritesOf(f) = {}

\* A package with at least two interfaces was generated to the end
C25_Witness ==
    /\ gen_result = "ok"
    /\ Cardinality(InterfacesOfPackage) >= 2
    /\ \A f \in PackageFiles : WritesOf(f) # {}

\* The interfaces in the order their files were read
RECURSIVE reads_of(_)
reads_of(log) ==
    IF log = <<>> THEN <<>>
    ELSE IF Head(log).op = "read"
    THEN <<<<Head(log).kind, Head(log).name>>>> \o reads_of(Tail(log))
    ELSE reads_of(Tail(log))

\* Messages before services before actions, ascending stems within a kind
InOrder(a, b) ==
    \/ KindIndex(a[1]) < KindIndex(b[1])
    \/ a[1] = b[1] /\ a[2] < b[2]

\* The stems of the files listed in a directory of the share directory
StemsListed(kind) ==
    LET dir == IF kind = "msg" THEN gen_share.msg
               ELSE IF kind = "srv" THEN gen_share.srv ELSE gen_share.action
    IN { dir.entries[j].stem : j \in 1..Len(dir.entries) }

\* The declarations of one tree of lib.rs, as <<kind, name>>
DeclaredIn(modules, tree) ==
    LET of_tree(m) == m[1] = tree
        kept == SelectSeq(modules, of_tree)
    IN [j \in 1..Len(kept) |-> <<kept[j][2], kept[j][3]>>]

\* C26: whatever the order in which the directories list their files,
\* generate_package reads the interfaces in one order: the messages by
\* ascending stem, then the services by ascending stem, then the actions by
\* ascending stem; when it reaches lib.rs it has read exactly the listed
\* files, and both trees of lib.rs declare the modules in that same order.
C26_SortedProcessingOrder ==
    LET reads == reads_of(gen_log)
    IN /\ \A a, b \in 1..Len(reads) : a < b => InOrder(reads[a], reads[b])
       /\ \A j \in 1..Len(gen_log) : gen_log[j].op = "write_file" /\ gen_log[j].kind = "lib.rs" =>
             /\ Range(reads) = UNION { { <<Kinds[k], n>> : n \in StemsListed(Kinds[k]) } :
                                       k \in 1..Len(Kinds) }
             /\ DeclaredIn(gen_log[j].modules, "ffi") = reads
             /\ DeclaredIn(gen_log[j].modules, "idiomatic") = reads

\* msg/ lists its two files in descending order, srv/ has a file, and
\* lib.rs was written
C26_Witness ==
    /\ gen_share.msg = Dir(<<File(2, "msg"), File(1, "msg")>>)
    /\ gen_share.srv # Absent
    /\ WritesOf("lib.rs") # {}

\* ========================================================================
\* Properties of the runtime Sequence (checked under SpecSequence)
\* ========================================================================
\* C30: the clone of a Sequence is equal to it (same length, same elements),
\* and from_slice_converted(slice) has slice.len() elements.
C30_ClonePreservesContents ==
    /\ derived.op = "clone" =>
          /\ len(derived.value) = len(sequence[1])
          /\ eq(derived.value, sequence[1])
    /\ derived.op = "from_slice_converted" =>
          len(derived.value) = Len(vec_input)
====
